---------------------------- MODULE Spec2Model ----------------------------
(***************************************************************************)
(* BudgetSync Field (Natedebug/Budget-tracker): a model of                 *)
(*   - the single-active-Gmail-connection manager of server/storage.ts,    *)
(*   - the budget statistics aggregator of server/routes.ts                *)
(*     (GET /api/projects/:id/stats) and the storage reads and creation    *)
(*     routes that feed it.                                                *)
(*                                                                         *)
(* The PostgreSQL database is modelled at READ COMMITTED (the default of   *)
(* db.transaction): a statement sees every row committed before it         *)
(* starts, writes made inside a transaction are private to it until        *)
(* COMMIT, and a row updated inside a transaction stays row-locked until   *)
(* the transaction ends.                                                   *)
(***************************************************************************)
EXTENDS Integers, Sequences, FiniteSets, TLC

VARIABLES
    \* ---- gmail_connection -------------------------------------------------
    gmailConnection,  \* committed rows of the table: id -> row
    nextId,           \* ids handed out so far (gen_random_uuid() never repeats)
    advisoryLock,     \* holder of pg_advisory_xact_lock(1234567890), or None
    pc,               \* position of each createGmailConnection call
    req,              \* the InsertGmailConnection each call was given
    tx,               \* what each call's transaction has written so far
    returned,         \* the row each successful call returned
    lastGet,          \* what the latest getGmailConnection() returned
    lastCall,         \* how the latest update or delete call ended
    \* ---- projects and their cost entries (a row's id is its index, and the
    \*      index is also the order of created_at) --------------------------
    projects,
    timesheets,
    equipmentLogs,
    subcontractorEntries,
    overheadEntries,
    progressReports,
    materials,
    today,            \* the current calendar day (UTC)
    \* ---- one GET /api/projects/:id/stats request --------------------------
    stats,            \* its position, what it has read so far, its response
    writesSinceStats, \* history: a row was created since the request started
    \* ---- one createProgressReportWithMaterials call and one reader ---------
    reportTx,         \* the call's position, arguments and transaction
    reader,           \* a client listing reports, then the materials of one
    supplied,         \* history: report id -> the material costs it came with
    \* ---- categories -------------------------------------------------------
    categories,       \* the categories table: id -> row, deleted rows marked
    \* ---- history of the statistics requests --------------------------------
    snapshots,        \* the table sizes that existed since the request started
    reported,         \* project id -> the totalSpent of its latest two 200 responses
    \* ---- receipts ----------------------------------------------------------
    receipts,         \* the receipts table: id -> row
    analyze,          \* one POST /api/receipts/:id/analyze request
    \* ---- email scans -------------------------------------------------------
    scan,             \* each scanGmailAccountForReceipts call: position, result
    \* ---- client: one page's list query and its createMutation ---------------
    queryData,        \* the query cache entry of the page's list
    creating,         \* each createMutation.mutate call: position, context
    served            \* number of rows the server returns for the list

gmailVars ==
    <<gmailConnection, nextId, advisoryLock, pc, req, tx, returned, lastGet, lastCall>>

tables == <<projects, timesheets, equipmentLogs, subcontractorEntries,
            overheadEntries, progressReports, materials>>

statsVars == <<tables, today, stats, writesSinceStats>>

reportVars == <<reportTx, reader, supplied>>

categoryVars == <<categories>>

historyVars == <<snapshots, reported>>

\* what the Gmail connection, statistics, report and category operations leave alone
receiptVars == <<receipts, analyze>>

scanVars == <<scan>>

cacheVars == <<queryData, creating, served>>

restVars == <<historyVars, receiptVars, scanVars, cacheVars>>

vars == <<gmailVars, statsVars, reportVars, categoryVars, restVars>>

\* undefined / null
None == 0

(***************************************************************************)
(* Bounds of the model.                                                    *)
(***************************************************************************)
\* number of concurrent createGmailConnection calls
NumCallers == 2
\* number of distinct inbox addresses a caller may connect
NumEmails == 1

Callers == 1..NumCallers
Emails == 1..NumEmails
\* ids a delete or update request may name: every id an insert can hand out,
\* and one that never exists
RequestIds == 1..(NumCallers + 1)

(***************************************************************************)
(* shared/schema.ts: the gmail_connection table and its insert schema.     *)
(***************************************************************************)
\* column defaults of the table: is_active default true, sync_status default
\* 'pending', last_sync_at (a day, 0 for none) and last_error null
ColumnDefaults ==
    [isActive |-> TRUE, syncStatus |-> "pending", lastSyncAt |-> 0,
     lastError |-> [null |-> TRUE]]

\* insertGmailConnectionSchema: createInsertSchema(gmailConnection) without id,
\* createdAt, updatedAt.  gmailEmail is required; isActive (a column with a
\* default) is optional and, when given, any boolean.
InsertGmailConnection ==
    {[gmailEmail |-> e] : e \in Emails}
        \cup {[gmailEmail |-> e, isActive |-> b] : e \in Emails, b \in BOOLEAN}

\* Partial<InsertGmailConnection>: any subset of the insertable columns
PartialGmailConnection ==
    {[syncStatus |-> s] : s \in {"syncing", "error"}}
        \cup {[isActive |-> b] : b \in BOOLEAN}
        \cup {[syncStatus |-> "success", isActive |-> TRUE]}

\* .values(insertConnection): the given columns, defaults for the others
RowOf(insertConnection) ==
    [gmailEmail |-> insertConnection.gmailEmail,
     isActive   |-> IF "isActive" \in DOMAIN insertConnection
                      THEN insertConnection.isActive
                      ELSE ColumnDefaults.isActive,
     syncStatus |-> ColumnDefaults.syncStatus,
     lastSyncAt |-> ColumnDefaults.lastSyncAt,
     lastError  |-> ColumnDefaults.lastError]

\* .set(updateData): the given columns replaced, the others kept
SetColumns(row, updateData) ==
    [f \in DOMAIN row |-> IF f \in DOMAIN updateData THEN updateData[f] ELSE row[f]]

\* WHERE is_active = true
ActiveIds(table) == {id \in DOMAIN table : table[id].isActive}

\* UPDATE gmail_connection SET is_active = false WHERE id IN ids
Deactivated(table, ids) ==
    [id \in DOMAIN table |->
        IF id \in ids THEN SetColumns(table[id], [isActive |-> FALSE]) ELSE table[id]]

\* INSERT INTO gmail_connection ... (a new primary key)
Inserted(table, id, row) ==
    [i \in DOMAIN table \cup {id} |-> IF i = id THEN row ELSE table[i]]

(***************************************************************************)
(* server/storage.ts: createGmailConnection.                               *)
(***************************************************************************)
InTx == {"begun", "locked", "deactivated", "inserted"}

\* no row, no request, nothing returned yet
NoRow == [id |-> None]

NoTx == [deact |-> {}, ins |-> NoRow, insId |-> None]

\* rows locked by the UPDATE of a transaction that has not ended yet
RowLocked(id) ==
    \E q \in Callers : pc[q] \in {"deactivated", "inserted"} /\ id \in tx[q].deact

AutoCommitStatement(committed, changed) == changed

\* db.transaction(async (tx) => ...): a statement run on tx changes the
\* transaction's private view; the committed table is what it was.
TxStatement(committed, changed) == committed

LockIgnored(lock) == TRUE

\* pg_advisory_xact_lock blocks while another transaction holds the lock
CanAcquire(lock) == lock = None

\* no update or delete call yet
NoCall == [op |-> "none"]

GmailInit ==
    /\ gmailConnection = << >>
    /\ nextId = 1
    /\ advisoryLock = None
    /\ pc = [p \in Callers |-> "idle"]
    /\ req = [p \in Callers |-> NoRow]
    /\ tx = [p \in Callers |-> NoTx]
    /\ returned = [p \in Callers |-> NoRow]
    /\ lastGet = None
    /\ lastCall = NoCall

\* createGmailConnection(insertConnection) is called: BEGIN
CreateBegin(p) ==
    /\ pc[p] = "idle"
    /\ \E insertConnection \in InsertGmailConnection :
          req' = [req EXCEPT ![p] = insertConnection]
    /\ pc' = [pc EXCEPT ![p] = "begun"]
    /\ UNCHANGED <<gmailConnection, nextId, advisoryLock, tx, returned, lastGet, lastCall>>

\* SELECT pg_advisory_xact_lock(1234567890)
CreateLock(p) ==
    /\ pc[p] = "begun"
    /\ CanAcquire(advisoryLock)
    /\ advisoryLock' = p
    /\ pc' = [pc EXCEPT ![p] = "locked"]
    /\ UNCHANGED <<gmailConnection, nextId, req, tx, returned, lastGet, lastCall>>

\* UPDATE gmail_connection SET is_active = false WHERE is_active = true
CreateDeactivate(p) ==
    /\ pc[p] = "locked"
    /\ LET targets == ActiveIds(gmailConnection) IN
          /\ \A id \in targets : ~RowLocked(id)
          /\ tx' = [tx EXCEPT ![p].deact = targets]
          /\ gmailConnection' =
                TxStatement(gmailConnection, Deactivated(gmailConnection, targets))
    /\ pc' = [pc EXCEPT ![p] = "deactivated"]
    /\ UNCHANGED <<nextId, advisoryLock, req, returned, lastGet, lastCall>>

\* INSERT INTO gmail_connection VALUES (insertConnection) RETURNING *
CreateInsert(p) ==
    /\ pc[p] = "deactivated"
    /\ tx' = [tx EXCEPT ![p].ins = RowOf(req[p]), ![p].insId = nextId]
    /\ nextId' = nextId + 1
    /\ gmailConnection' =
          TxStatement(gmailConnection, Inserted(gmailConnection, nextId, RowOf(req[p])))
    /\ pc' = [pc EXCEPT ![p] = "inserted"]
    /\ UNCHANGED <<advisoryLock, req, returned, lastGet, lastCall>>

StillHeld(lock, p) == lock

\* pg_advisory_xact_lock: "automatically released at transaction end"
Released(lock, p) == IF lock = p THEN None ELSE lock

\* POST /api/gmail-connection: 201 with the connection, 400 when the call threw
PostStatus(position) ==
    IF position = "done" THEN 201 ELSE IF position = "failed" THEN 400 ELSE None

\* COMMIT: the transaction's writes become visible, then its locks are released
CreateCommit(p) ==
    /\ pc[p] = "inserted"
    /\ gmailConnection' =
          Inserted(Deactivated(gmailConnection, tx[p].deact), tx[p].insId, tx[p].ins)
    /\ advisoryLock' = Released(advisoryLock, p)
    /\ returned' = [returned EXCEPT ![p] = [id |-> tx[p].insId, row |-> tx[p].ins]]
    /\ pc' = [pc EXCEPT ![p] = "done"]
    /\ UNCHANGED <<nextId, req, tx, lastGet, lastCall>>

\* a statement of the transaction throws (constraint violation, connection
\* loss): ROLLBACK, the promise rejects
CreateRollback(p) ==
    /\ pc[p] \in InTx
    /\ advisoryLock' = Released(advisoryLock, p)
    /\ pc' = [pc EXCEPT ![p] = "failed"]
    /\ UNCHANGED <<gmailConnection, nextId, req, tx, returned, lastGet, lastCall>>

(***************************************************************************)
(* server/storage.ts: getGmailConnection, deleteGmailConnection,           *)
(* updateGmailConnection (single statements, each its own transaction).    *)
(***************************************************************************)
\* SELECT ... WHERE is_active = true LIMIT 1 (no ORDER BY: any active row)
GetResults(table) == IF ActiveIds(table) = {} THEN {None} ELSE ActiveIds(table)

GetGmailConnection ==
    /\ lastGet' \in GetResults(gmailConnection)
    /\ UNCHANGED <<gmailConnection, nextId, advisoryLock, pc, req, tx, returned, lastCall>>

NotFoundOutcome == [error |-> "NotFound"]

\* await storage.deleteGmailConnection(req.params.id); res.status(204).send()
DeleteOutcome(table, id) == [status |-> 204]

\* const [connection] = ... .returning(); return connection
UpdateOutcome(table, id) ==
    [connection |-> IF id \in DOMAIN table THEN id ELSE None]

\* UPDATE ... SET is_active = false WHERE id = :id  (no row: nothing happens)
DeleteGmailConnection(id) ==
    /\ ~RowLocked(id)
    /\ gmailConnection' =
          Deactivated(gmailConnection, {id} \cap DOMAIN gmailConnection)
    /\ lastCall' = [op |-> "delete", id |-> id,
                    outcome |-> DeleteOutcome(gmailConnection, id)]
    /\ UNCHANGED <<nextId, advisoryLock, pc, req, tx, returned, lastGet>>

\* UPDATE ... SET updateData WHERE id = :id  (no row: nothing happens)
UpdateGmailConnection(id, updateData) ==
    /\ ~RowLocked(id)
    /\ gmailConnection' =
          [i \in DOMAIN gmailConnection |->
              IF i = id THEN SetColumns(gmailConnection[i], updateData)
                        ELSE gmailConnection[i]]
    /\ lastCall' = [op |-> "update", id |-> id,
                    outcome |-> UpdateOutcome(gmailConnection, id)]
    /\ UNCHANGED <<nextId, advisoryLock, pc, req, tx, returned, lastGet>>

(***************************************************************************)
(* JavaScript numbers.  A number is the exact rational n/d in lowest terms *)
(* (d > 0); d = 0 stands for the values a division by zero produces:       *)
(* 1/0 is Infinity, -1/0 is -Infinity, 0/0 is NaN.  The rounding error of  *)
(* binary floating point is not modelled.                                  *)
(***************************************************************************)
RECURSIVE GCD(_, _)
GCD(a, b) == IF b = 0 THEN a ELSE GCD(b, a % b)

Abs(x) == IF x < 0 THEN -x ELSE x

Sign(x) == IF x > 0 THEN 1 ELSE IF x < 0 THEN -1 ELSE 0

Num(n, d) ==
    IF d = 0 THEN [n |-> Sign(n), d |-> 0]
    ELSE LET g == GCD(Abs(n), Abs(d)) IN
         [n |-> (Sign(d) * n) \div g, d |-> Abs(d) \div g]

Zero == Num(0, 1)
Hundred == Num(100, 1)
NaN == Num(0, 0)

IsFinite(x) == x.d # 0
IsNaN(x) == x.d = 0 /\ x.n = 0

\* x + y
NumAdd(x, y) ==
    IF IsFinite(x) /\ IsFinite(y)
      THEN LET l == (x.d \div GCD(x.d, y.d)) * y.d IN
           Num(x.n * (l \div x.d) + y.n * (l \div y.d), l)
      ELSE IF IsNaN(x) \/ IsNaN(y) \/ (~IsFinite(x) /\ ~IsFinite(y) /\ x.n # y.n)
             THEN NaN
             ELSE IF IsFinite(x) THEN y ELSE x

\* x - y
NumSub(x, y) == NumAdd(x, [n |-> -y.n, d |-> y.d])

\* x * y
NumMul(x, y) ==
    IF IsFinite(x) /\ IsFinite(y)
      THEN LET g1 == GCD(Abs(x.n), y.d)
               g2 == GCD(Abs(y.n), x.d)
           IN  IF x.n = 0 \/ y.n = 0 THEN Zero
               ELSE Num((x.n \div g1) * (y.n \div g2), (x.d \div g2) * (y.d \div g1))
      ELSE IF IsNaN(x) \/ IsNaN(y) \/ x.n = 0 \/ y.n = 0
             THEN NaN
             ELSE Num(Sign(x.n) * Sign(y.n), 0)

\* x / y: a non-zero number over 0 is +-Infinity, 0 / 0 is NaN
NumDiv(x, y) ==
    IF IsFinite(x) /\ IsFinite(y)
      THEN IF y.n = 0 THEN Num(Sign(x.n), 0)
           ELSE NumMul(x, Num(y.d, y.n))
      ELSE IF IsFinite(y) /\ ~IsNaN(x) THEN Num(x.n * (IF y.n < 0 THEN -1 ELSE 1), 0)
           ELSE IF IsFinite(x) /\ ~IsNaN(y) THEN Zero
           ELSE NaN

\* x < y: false as soon as one side is NaN
NumLt(x, y) ==
    IF IsNaN(x) \/ IsNaN(y) THEN FALSE
    ELSE IF IsFinite(x) /\ IsFinite(y)
           THEN LET l == (x.d \div GCD(x.d, y.d)) * y.d IN
                x.n * (l \div x.d) < y.n * (l \div y.d)
           ELSE IF IsFinite(x) THEN y.n > 0
           ELSE IF IsFinite(y) THEN x.n < 0
           ELSE x.n < y.n

\* x > 0 for an integer column
IntNum(i) == Num(i, 1)

\* res.json(...): JSON has no Infinity and no NaN, JSON.stringify writes null
JsonNumber(x) == IF IsFinite(x) THEN x ELSE "null"

(***************************************************************************)
(* shared/schema.ts: decimal columns and the insert schemas.  A request    *)
(* gives an amount in thousandths; a decimal(p, 2) column stores it        *)
(* rounded to hundredths (PostgreSQL rounds a numeric half away from       *)
(* zero).                                                                  *)
(***************************************************************************)
\* z.coerce.number().positive()
Positive(mills) == mills > 0

Unvalidated(mills) == TRUE

\* z.coerce.number().nonnegative()
NonNegative(mills) == mills >= 0

\* .transform(String) into a decimal(p, 2) column: the stored hundredths
StoredDecimal(mills) ==
    IF mills >= 0 THEN (mills + 5) \div 10 ELSE -((5 - mills) \div 10)

\* parseFloat(column): the number a stored decimal(p, 2) string reads as
ParseFloat(hundredths) == Num(hundredths, 100)

(***************************************************************************)
(* Bounds and request inputs of the statistics model.                      *)
(***************************************************************************)
\* calendar days the clock and the entries' dates range over
MaxDay == 2
\* rows of the projects table
MaxProjects == 2
\* rows of all cost-entry, progress-report and material tables together
MaxRows == 2

\* categories ever created
MaxCategories == 2

Days == 1..MaxDay

\* bodies of POST /api/projects: totalBudget in thousandths of a dollar
ProjectInputs ==
    {[totalBudget |-> 0,        laborBudget |-> 0,  startDate |-> 1,      endDate |-> None],
     [totalBudget |-> 50000000, laborBudget |-> 0,  startDate |-> 1,      endDate |-> None],
     [totalBudget |-> 50000000, laborBudget |-> -1, startDate |-> 1,      endDate |-> None],
     [totalBudget |-> 100000,   laborBudget |-> 4,  startDate |-> MaxDay, endDate |-> MaxDay],
     [totalBudget |-> 1,        laborBudget |-> 0,  startDate |-> 1,      endDate |-> MaxDay]}

\* amounts a request may carry, in thousandths of a dollar
HoursInputs == {8000}
PayRateInputs == {25000}
FuelCostInputs == {0}
RentalCostInputs == {5}
SubcontractorCostInputs == {0, 30000000}
OverheadCostInputs == {5}
MaterialCostInputs == {-5, 5}
PercentInputs == {-1, 0, 50}

RowCount ==
    Len(timesheets) + Len(equipmentLogs) + Len(subcontractorEntries)
        + Len(overheadEntries) + Len(progressReports) + Len(materials)

\* the categories a request body's optional categoryId may name: the foreign
\* key categories.id rejects any other
LiveCategories == {c \in DOMAIN categories : categories[c].exists}

CategoryChoices == {None} \cup LiveCategories

CategoryInit == categories = << >>

(***************************************************************************)
(* server/routes.ts and server/storage.ts: the creation routes.  A body    *)
(* the insert schema rejects, or a row the database rejects, answers 400   *)
(* and stores nothing.                                                     *)
(***************************************************************************)
\* POST /api/projects
CreateProject ==
    /\ Len(projects) < MaxProjects
    /\ \E body \in ProjectInputs :
          projects' =
              IF Positive(body.totalBudget) /\ NonNegative(body.laborBudget)
                THEN Append(projects, [totalBudget |-> StoredDecimal(body.totalBudget),
                                       laborBudget |-> StoredDecimal(body.laborBudget),
                                       startDate   |-> body.startDate,
                                       endDate     |-> body.endDate])
                ELSE projects
    /\ writesSinceStats' = TRUE
    /\ UNCHANGED <<timesheets, equipmentLogs, subcontractorEntries, overheadEntries,
                   progressReports, materials, today, stats, gmailVars>>

\* POST /api/timesheets
CreateTimesheet ==
    /\ RowCount < MaxRows
    /\ \E projectId \in DOMAIN projects, hours \in HoursInputs,
          payRate \in PayRateInputs, categoryId \in CategoryChoices :
          timesheets' =
              IF Positive(hours) /\ Positive(payRate)
                THEN Append(timesheets, [projectId |-> projectId,
                                         categoryId |-> categoryId,
                                         hours     |-> StoredDecimal(hours),
                                         payRate   |-> StoredDecimal(payRate),
                                         date      |-> today])
                ELSE timesheets
    /\ writesSinceStats' = TRUE
    /\ UNCHANGED <<projects, equipmentLogs, subcontractorEntries, overheadEntries,
                   progressReports, materials, today, stats, gmailVars>>

\* POST /api/equipment
CreateEquipmentLog ==
    /\ RowCount < MaxRows
    /\ \E projectId \in DOMAIN projects, fuelCost \in FuelCostInputs,
          rentalCost \in RentalCostInputs, categoryId \in CategoryChoices :
          equipmentLogs' =
              IF NonNegative(fuelCost) /\ NonNegative(rentalCost)
                THEN Append(equipmentLogs, [projectId  |-> projectId,
                                            categoryId |-> categoryId,
                                            fuelCost   |-> StoredDecimal(fuelCost),
                                            rentalCost |-> StoredDecimal(rentalCost),
                                            date       |-> today])
                ELSE equipmentLogs
    /\ writesSinceStats' = TRUE
    /\ UNCHANGED <<projects, timesheets, subcontractorEntries, overheadEntries,
                   progressReports, materials, today, stats, gmailVars>>

\* POST /api/subcontractors
CreateSubcontractorEntry ==
    /\ RowCount < MaxRows
    /\ \E projectId \in DOMAIN projects, cost \in SubcontractorCostInputs,
          categoryId \in CategoryChoices :
          subcontractorEntries' =
              IF Positive(cost)
                THEN Append(subcontractorEntries, [projectId |-> projectId,
                                                   categoryId |-> categoryId,
                                                   cost      |-> StoredDecimal(cost),
                                                   date      |-> today])
                ELSE subcontractorEntries
    /\ writesSinceStats' = TRUE
    /\ UNCHANGED <<projects, timesheets, equipmentLogs, overheadEntries,
                   progressReports, materials, today, stats, gmailVars>>

\* POST /api/overhead
CreateOverheadEntry ==
    /\ RowCount < MaxRows
    /\ \E projectId \in DOMAIN projects, cost \in OverheadCostInputs,
          categoryId \in CategoryChoices :
          overheadEntries' =
              IF Positive(cost)
                THEN Append(overheadEntries, [projectId |-> projectId,
                                              categoryId |-> categoryId,
                                              cost      |-> StoredDecimal(cost),
                                              date      |-> today])
                ELSE overheadEntries
    /\ writesSinceStats' = TRUE
    /\ UNCHANGED <<projects, timesheets, equipmentLogs, subcontractorEntries,
                   progressReports, materials, today, stats, gmailVars>>

\* insertProgressReportSchema: percentComplete an integer from 0 to 100
ValidPercent(percentComplete) == percentComplete >= 0 /\ percentComplete <= 100

\* POST /api/progress-reports: createProgressReportWithMaterials inserts the
\* report and its materials in one transaction, committed as a whole
CreateProgressReport ==
    /\ \E projectId \in DOMAIN projects, percentComplete \in PercentInputs, date \in Days,
          costs \in {<< >>} \cup {<<c>> : c \in MaterialCostInputs},
          categoryId \in CategoryChoices :
          /\ RowCount + 1 + Len(costs) <= MaxRows
          /\ IF ValidPercent(percentComplete) /\ \A i \in DOMAIN costs : NonNegative(costs[i])
               THEN /\ progressReports' =
                          Append(progressReports, [projectId       |-> projectId,
                                                   percentComplete |-> percentComplete,
                                                   date            |-> date])
                    /\ materials' =
                          materials \o
                              [i \in DOMAIN costs |->
                                  [progressReportId |-> Len(progressReports) + 1,
                                   categoryId       |-> categoryId,
                                   cost             |-> StoredDecimal(costs[i])]]
               ELSE UNCHANGED <<progressReports, materials>>
    /\ writesSinceStats' = TRUE
    /\ UNCHANGED <<projects, timesheets, equipmentLogs, subcontractorEntries,
                   overheadEntries, today, stats, gmailVars>>

\* POST /api/materials
CreateMaterial ==
    /\ RowCount < MaxRows
    /\ \E progressReportId \in DOMAIN progressReports, cost \in MaterialCostInputs,
          categoryId \in CategoryChoices :
          materials' =
              IF NonNegative(cost)
                THEN Append(materials, [progressReportId |-> progressReportId,
                                        categoryId       |-> categoryId,
                                        cost             |-> StoredDecimal(cost)])
                ELSE materials
    /\ writesSinceStats' = TRUE
    /\ UNCHANGED <<projects, timesheets, equipmentLogs, subcontractorEntries,
                   overheadEntries, progressReports, today, stats, gmailVars>>

\* midnight (UTC) passes
Tick ==
    /\ today < MaxDay
    /\ today' = today + 1
    /\ UNCHANGED <<tables, stats, writesSinceStats, gmailVars>>

(***************************************************************************)
(* server/storage.ts: the reads of the statistics handler.                 *)
(***************************************************************************)
\* getProject(id)
GetProject(projectId) ==
    IF projectId \in DOMAIN projects THEN projects[projectId] ELSE None

\* .where(eq(<table>.projectId, projectId))
ProjectRows(table, projectId) == {i \in DOMAIN table : table[i].projectId = projectId}

CreatedLater(table, i, j) == i > j

\* .orderBy(desc(<table>.date), desc(<table>.createdAt)): row i comes before row j
Before(table, i, j) ==
    \/ table[i].date > table[j].date
    \/ table[i].date = table[j].date /\ i > j

RECURSIVE OrderBy(_, _)
OrderBy(table, ids) ==
    IF ids = {} THEN << >>
    ELSE LET first == CHOOSE i \in ids : \A j \in ids \ {i} : Before(table, i, j)
         IN  <<table[first]>> \o OrderBy(table, ids \ {first})

\* getProjectTimesheets, getProjectEquipmentLogs, getProjectSubcontractorEntries,
\* getProjectOverheadEntries, getProjectProgressReports
GetProjectRows(table, projectId) == OrderBy(table, ProjectRows(table, projectId))

\* getProjectMaterials, first query: the ids of the project's progress reports
GetProjectReportIds(projectId) == ProjectRows(progressReports, projectId)

RECURSIVE RowsIn(_, _)
RowsIn(table, ids) ==
    IF ids = {} THEN << >>
    ELSE LET i == CHOOSE k \in ids : \A j \in ids : k <= j
         IN  <<table[i]>> \o RowsIn(table, ids \ {i})

\* inArray(materials.progressReportId, reportIds)
MaterialsIn(table, reportIds) ==
    RowsIn(table, {i \in DOMAIN table : table[i].progressReportId \in reportIds})

\* getProjectMaterials, second query; without reports there is none
GetMaterialsOfReports(reportIds) ==
    IF reportIds = {} THEN << >> ELSE MaterialsIn(materials, reportIds)

(***************************************************************************)
(* server/routes.ts: GET /api/projects/:id/stats, the computation.         *)
(***************************************************************************)
\* data.reduce((sum, x) => sum + x, 0)
RECURSIVE Reduce(_)
Reduce(amounts) ==
    IF amounts = << >> THEN Zero
    ELSE NumAdd(Reduce(SubSeq(amounts, 1, Len(amounts) - 1)), amounts[Len(amounts)])

\* parseFloat(entry.hours) * parseFloat(entry.payRate)
TimesheetCost(entry) == NumMul(ParseFloat(entry.hours), ParseFloat(entry.payRate))

\* parseFloat(entry.fuelCost) + parseFloat(entry.rentalCost)
EquipmentCost(entry) == NumAdd(ParseFloat(entry.fuelCost), ParseFloat(entry.rentalCost))

\* parseFloat(entry.cost)
EntryCost(entry) == ParseFloat(entry.cost)

\* timesheetData.reduce((sum, entry) => sum + hours * payRate, 0)
LaborSpent(timesheetData) ==
    Reduce([i \in DOMAIN timesheetData |-> TimesheetCost(timesheetData[i])])

\* equipmentData.reduce((sum, entry) => sum + fuelCost + rentalCost, 0)
RECURSIVE EquipmentSpent(_)
EquipmentSpent(equipmentData) ==
    IF equipmentData = << >> THEN Zero
    ELSE LET entry == equipmentData[Len(equipmentData)]
             sum   == EquipmentSpent(SubSeq(equipmentData, 1, Len(equipmentData) - 1))
         IN  NumAdd(NumAdd(sum, ParseFloat(entry.fuelCost)), ParseFloat(entry.rentalCost))

\* subcontractorsSpent, overheadSpent, materialsSpent
CostSpent(data) == Reduce([i \in DOMAIN data |-> EntryCost(data[i])])

TotalWithoutMaterials(laborSpent, equipmentSpent, subcontractorsSpent, overheadSpent, materialsSpent) ==
    NumAdd(NumAdd(NumAdd(laborSpent, equipmentSpent), subcontractorsSpent), overheadSpent)

\* laborSpent + equipmentSpent + subcontractorsSpent + overheadSpent + materialsSpent
TotalSpent(laborSpent, equipmentSpent, subcontractorsSpent, overheadSpent, materialsSpent) ==
    NumAdd(NumAdd(NumAdd(NumAdd(laborSpent, equipmentSpent), subcontractorsSpent),
                  overheadSpent),
           materialsSpent)

\* progressData.length > 0 ? progressData[0].percentComplete : 0
LatestProgress(progressData) ==
    IF Len(progressData) > 0 THEN progressData[1].percentComplete ELSE 0

ProjectedFromBurnRate(totalSpent, totalBudget, latestProgress) ==
    IF latestProgress > 0
      THEN NumDiv(totalSpent, IntNum(latestProgress))
      ELSE totalBudget

\* let projectedFinalCost = totalBudget;
\* if (latestProgress > 0) projectedFinalCost = (totalSpent / latestProgress) * 100
ProjectedFinalCost(totalSpent, totalBudget, latestProgress) ==
    IF latestProgress > 0
      THEN NumMul(NumDiv(totalSpent, IntNum(latestProgress)), Hundred)
      ELSE totalBudget

Max(a, b) == IF a >= b THEN a ELSE b

DaysElapsed(startDate, nowDay, pastMidnight) ==
    nowDay - startDate + (IF pastMidnight THEN 1 ELSE 0)

\* Math.max(1, Math.ceil((today - startDate) / (1000 * 60 * 60 * 24))): startDate
\* is midnight of its day, today is midnight of nowDay or (pastMidnight) later
DaysSinceStart(startDate, nowDay, pastMidnight) ==
    Max(1, nowDay - startDate + (IF pastMidnight THEN 1 ELSE 0))

\* Math.max(0, Math.ceil((endDate - today) / (1000 * 60 * 60 * 24))), 0 without endDate
DaysRemaining(endDate, nowDay) ==
    IF endDate = None THEN 0 ELSE Max(0, endDate - nowDay)

\* the costs of the entries dated todayStr
SpentToday(timesheetData, equipmentData, subcontractorData, overheadData, nowDay) ==
    LET t == SelectSeq(timesheetData, LAMBDA x : x.date = nowDay)
        e == SelectSeq(equipmentData, LAMBDA x : x.date = nowDay)
        s == SelectSeq(subcontractorData, LAMBDA x : x.date = nowDay)
        o == SelectSeq(overheadData, LAMBDA x : x.date = nowDay)
    IN  Reduce([i \in DOMAIN t |-> TimesheetCost(t[i])]
                 \o [i \in DOMAIN e |-> EquipmentCost(e[i])]
                 \o [i \in DOMAIN s |-> EntryCost(s[i])]
                 \o [i \in DOMAIN o |-> EntryCost(o[i])])

\* lines 118-197: the body of the 200 response
ComputeStats(project, timesheetData, equipmentData, subcontractorData, overheadData, progressData, allMaterials, nowDay, pastMidnight) ==
    LET laborSpent          == LaborSpent(timesheetData)
        equipmentSpent      == EquipmentSpent(equipmentData)
        subcontractorsSpent == CostSpent(subcontractorData)
        overheadSpent       == CostSpent(overheadData)
        materialsSpent      == CostSpent(allMaterials)
        totalSpent          == TotalSpent(laborSpent, equipmentSpent, subcontractorsSpent,
                                          overheadSpent, materialsSpent)
        totalBudget         == ParseFloat(project.totalBudget)
        latestProgress      == LatestProgress(progressData)
        projectedFinalCost  == ProjectedFinalCost(totalSpent, totalBudget, latestProgress)
    IN  [status              |-> 200,
         totalBudget         |-> totalBudget,
         totalSpent          |-> totalSpent,
         spentToday          |-> SpentToday(timesheetData, equipmentData,
                                            subcontractorData, overheadData, nowDay),
         remaining           |-> NumSub(totalBudget, totalSpent),
         percentUsed         |-> NumMul(NumDiv(totalSpent, totalBudget), Hundred),
         percentComplete     |-> latestProgress,
         laborSpent          |-> laborSpent,
         materialsSpent      |-> materialsSpent,
         equipmentSpent      |-> equipmentSpent,
         subcontractorsSpent |-> subcontractorsSpent,
         overheadSpent       |-> overheadSpent,
         projectedFinalCost  |-> projectedFinalCost,
         variance            |-> NumSub(projectedFinalCost, totalBudget),
         dailyBurnRate       |-> NumDiv(totalSpent,
                                        IntNum(DaysSinceStart(project.startDate, nowDay,
                                                              pastMidnight))),
         daysRemaining       |-> DaysRemaining(project.endDate, nowDay)]

OkWithoutFigures == [status |-> 200]

\* res.status(404).json({ error: "Project not found" })
NotFound == [status |-> 404]

(***************************************************************************)
(* server/routes.ts: GET /api/projects/:id/stats, step by step.  Every     *)
(* await is a point where other requests run.                              *)
(***************************************************************************)
StatsReads == {"timesheets", "equipment", "subcontractors", "overhead", "progress"}

\* `project` before getProject has answered, `res` before anything is sent
NoProject == [totalBudget |-> None]
NoResponse == [status |-> None]

StatsIdle ==
    [pc |-> "idle", projectId |-> None, project |-> NoProject, pending |-> {},
     timesheetData |-> << >>, equipmentData |-> << >>, subcontractorData |-> << >>,
     overheadData |-> << >>, progressData |-> << >>,
     reportIds |-> {}, allMaterials |-> << >>, response |-> NoResponse]

StatsInit ==
    /\ projects = << >>
    /\ timesheets = << >>
    /\ equipmentLogs = << >>
    /\ subcontractorEntries = << >>
    /\ overheadEntries = << >>
    /\ progressReports = << >>
    /\ materials = << >>
    /\ today = 1
    /\ stats = StatsIdle
    /\ writesSinceStats = FALSE

\* const project = await storage.getProject(projectId); 404 when there is none;
\* otherwise the five reads of Promise.all are issued
StatsGetProject ==
    /\ stats.pc \in {"idle", "done"}
    /\ \E projectId \in 1..(MaxProjects + 1) :
          stats' =
              IF projectId \notin DOMAIN projects
                THEN [StatsIdle EXCEPT !.pc = "done", !.projectId = projectId,
                                       !.response = NotFound]
                ELSE [StatsIdle EXCEPT !.pc = "reading", !.projectId = projectId,
                                       !.project = GetProject(projectId),
                                       !.pending = StatsReads]
    /\ writesSinceStats' = FALSE
    /\ UNCHANGED <<tables, today, gmailVars>>

\* one of the five reads of Promise.all completes (in any order)
StatsRead ==
    /\ stats.pc = "reading"
    /\ \E read \in stats.pending :
          LET got ==
                CASE read = "timesheets" ->
                       [stats EXCEPT !.timesheetData =
                                        GetProjectRows(timesheets, stats.projectId)]
                  [] read = "equipment" ->
                       [stats EXCEPT !.equipmentData =
                                        GetProjectRows(equipmentLogs, stats.projectId)]
                  [] read = "subcontractors" ->
                       [stats EXCEPT !.subcontractorData =
                                        GetProjectRows(subcontractorEntries, stats.projectId)]
                  [] read = "overhead" ->
                       [stats EXCEPT !.overheadData =
                                        GetProjectRows(overheadEntries, stats.projectId)]
                  [] read = "progress" ->
                       [stats EXCEPT !.progressData =
                                        GetProjectRows(progressReports, stats.projectId)]
          IN  stats' = [got EXCEPT !.pending = stats.pending \ {read},
                                   !.pc = IF stats.pending = {read}
                                            THEN "reports" ELSE "reading"]
    /\ UNCHANGED <<tables, today, writesSinceStats, gmailVars>>

\* getProjectMaterials: the project's progress reports; no report, no materials
StatsReadReports ==
    /\ stats.pc = "reports"
    /\ stats' = [stats EXCEPT !.reportIds = GetProjectReportIds(stats.projectId),
                              !.pc = IF GetProjectReportIds(stats.projectId) = {}
                                       THEN "respond" ELSE "materials"]
    /\ UNCHANGED <<tables, today, writesSinceStats, gmailVars>>

\* getProjectMaterials: the materials of those reports
StatsReadMaterials ==
    /\ stats.pc = "materials"
    /\ stats' = [stats EXCEPT !.allMaterials = GetMaterialsOfReports(stats.reportIds),
                              !.pc = "respond"]
    /\ UNCHANGED <<tables, today, writesSinceStats, gmailVars>>

\* the computation and res.json(...)
StatsRespond ==
    /\ stats.pc = "respond"
    /\ \E pastMidnight \in BOOLEAN :
          stats' = [stats EXCEPT
                       !.response = ComputeStats(stats.project, stats.timesheetData,
                                                 stats.equipmentData,
                                                 stats.subcontractorData,
                                                 stats.overheadData, stats.progressData,
                                                 stats.allMaterials, today, pastMidnight),
                       !.pc = "done"]
    /\ UNCHANGED <<tables, today, writesSinceStats, gmailVars>>

\* res.status(500).json({ error: "Failed to calculate statistics" })
ServerError == [status |-> 500]

\* a read that fails is taken for an empty result and the handler goes on
Swallowed(request) == [request EXCEPT !.pc = "respond", !.pending = {}]

\* catch (error): whatever was read so far is dropped and 500 is answered
Caught(request) ==
    [StatsIdle EXCEPT !.pc = "done", !.projectId = request.projectId,
                      !.response = ServerError]

\* storage.getProject(projectId) rejects
StatsGetProjectFails ==
    /\ stats.pc \in {"idle", "done"}
    /\ \E projectId \in 1..(MaxProjects + 1) :
          stats' = Caught([StatsIdle EXCEPT !.projectId = projectId])
    /\ writesSinceStats' = FALSE
    /\ UNCHANGED <<tables, today, gmailVars>>

\* one of the reads of Promise.all, or one of the two queries of
\* getProjectMaterials, rejects
StatsReadFails ==
    /\ stats.pc \in {"reading", "reports", "materials"}
    /\ stats' = Caught(stats)
    /\ UNCHANGED <<tables, today, writesSinceStats, gmailVars>>

(***************************************************************************)
(* server/storage.ts: createProgressReportWithMaterials, statement by      *)
(* statement, and a client that reads a report and then its materials.     *)
(* CreateProgressReport above is the same call taken as one step.          *)
(***************************************************************************)
\* the materials arrays a request may carry: costs in thousandths of a dollar
MaterialLists == {<< >>, <<5>>, <<5, 10>>}

NoReportTx ==
    [pc |-> "idle", projectId |-> None, percentComplete |-> None, date |-> None,
     costs |-> << >>, id |-> None, reportsBefore |-> 0, materialsBefore |-> 0]

ReportInTx == {"begun", "report", "materials"}

NoReader == [pc |-> "idle", report |-> None, materials |-> << >>]

\* INSERT ... VALUES rows: the rows get the ids firstId, firstId + 1, ...
PutRows(table, firstId, rows) ==
    [i \in 1..Max(Len(table), firstId + Len(rows) - 1) |->
        IF i >= firstId THEN rows[i - firstId + 1] ELSE table[i]]

\* insertMaterials.map((material) => ({ ...material, progressReportId: report.id }))
MaterialRows(costs, reportId) ==
    [i \in DOMAIN costs |->
        [progressReportId |-> reportId, categoryId |-> None,
         cost |-> StoredDecimal(costs[i])]]

ReportInit ==
    /\ reportTx = NoReportTx
    /\ reader = NoReader
    /\ supplied = << >>

\* POST /api/progress-reports with a valid body: db.transaction begins
ReportBegin ==
    /\ reportTx.pc \in {"idle", "done", "failed"}
    /\ Len(progressReports) < MaxRows
    /\ \E projectId \in DOMAIN projects, percentComplete \in PercentInputs,
          date \in Days, costs \in MaterialLists :
          /\ ValidPercent(percentComplete)
          /\ \A i \in DOMAIN costs : NonNegative(costs[i])
          /\ reportTx' = [NoReportTx EXCEPT
                             !.pc = "begun", !.projectId = projectId,
                             !.percentComplete = percentComplete, !.date = date,
                             !.costs = costs,
                             !.reportsBefore = Len(progressReports),
                             !.materialsBefore = Len(materials)]
    /\ UNCHANGED <<statsVars, gmailVars, reader, supplied, categoryVars, restVars>>

\* const [report] = await tx.insert(progressReports).values(insertReport).returning()
ReportInsert ==
    /\ reportTx.pc = "begun"
    /\ LET id  == reportTx.reportsBefore + 1
           row == [projectId       |-> reportTx.projectId,
                   percentComplete |-> reportTx.percentComplete,
                   date            |-> reportTx.date]
       IN  /\ progressReports' =
                 TxStatement(progressReports, PutRows(progressReports, id, <<row>>))
           /\ reportTx' = [reportTx EXCEPT !.pc = "report", !.id = id]
           /\ supplied' = PutRows(supplied, id, <<MaterialRows(reportTx.costs, id)>>)
    /\ UNCHANGED <<projects, timesheets, equipmentLogs, subcontractorEntries,
                   overheadEntries, materials, today, stats, writesSinceStats,
                   gmailVars, reader, categoryVars, restVars>>

\* if (insertMaterials.length > 0) await tx.insert(materials).values([...])
ReportInsertMaterials ==
    /\ reportTx.pc = "report"
    /\ materials' =
          IF Len(reportTx.costs) > 0
            THEN TxStatement(materials,
                             PutRows(materials, reportTx.materialsBefore + 1,
                                     MaterialRows(reportTx.costs, reportTx.id)))
            ELSE materials
    /\ reportTx' = [reportTx EXCEPT !.pc = "materials"]
    /\ UNCHANGED <<projects, timesheets, equipmentLogs, subcontractorEntries,
                   overheadEntries, progressReports, today, stats, writesSinceStats,
                   gmailVars, reader, supplied, categoryVars, restVars>>

\* return report: COMMIT, the report and its materials become visible together
ReportCommit ==
    /\ reportTx.pc = "materials"
    /\ progressReports' =
          PutRows(progressReports, reportTx.id,
                  <<[projectId       |-> reportTx.projectId,
                     percentComplete |-> reportTx.percentComplete,
                     date            |-> reportTx.date]>>)
    /\ materials' =
          PutRows(materials, reportTx.materialsBefore + 1,
                  MaterialRows(reportTx.costs, reportTx.id))
    /\ reportTx' = [reportTx EXCEPT !.pc = "done"]
    /\ writesSinceStats' = TRUE
    /\ UNCHANGED <<projects, timesheets, equipmentLogs, subcontractorEntries,
                   overheadEntries, today, stats, gmailVars, reader, supplied, categoryVars, restVars>>

\* an insert of the transaction throws (constraint violation, value out of
\* range, connection loss): ROLLBACK, the route answers 400
ReportRollback ==
    /\ reportTx.pc \in ReportInTx
    /\ reportTx' = [reportTx EXCEPT !.pc = "failed"]
    /\ UNCHANGED <<statsVars, gmailVars, reader, supplied, categoryVars, restVars>>

\* GET /api/projects/:id/progress-reports: the client picks one of the reports
ReaderGetReports ==
    /\ reader.pc \in {"idle", "done"}
    /\ \E id \in DOMAIN progressReports :
          reader' = [NoReader EXCEPT !.pc = "listed", !.report = id]
    /\ UNCHANGED <<statsVars, gmailVars, reportTx, supplied, categoryVars, restVars>>

\* GET /api/progress-reports/:id/materials: getProgressReportMaterials(reportId)
ReaderGetMaterials ==
    /\ reader.pc = "listed"
    /\ reader' = [reader EXCEPT !.pc = "done",
                                !.materials = MaterialsIn(materials, {reader.report})]
    /\ UNCHANGED <<statsVars, gmailVars, reportTx, supplied, categoryVars, restVars>>

(***************************************************************************)
(* shared/schema.ts: the categories table and the categoryId foreign keys  *)
(* of the five cost tables.  The category routes are called by the client  *)
(* (Categories.createMutation, deleteMutation); they insert and delete one *)
(* categories row.                                                         *)
(***************************************************************************)
\* POST /api/projects/:projectId/categories
CreateCategory ==
    /\ Len(categories) < MaxCategories
    /\ \E projectId \in DOMAIN projects :
          categories' = Append(categories, [projectId |-> projectId, exists |-> TRUE])
    /\ UNCHANGED <<statsVars, gmailVars, reportVars, restVars>>

\* categoryId ... references(() => categories.id, { onDelete: "set null" })
SetNull(table, categoryId) ==
    [i \in DOMAIN table |->
        IF table[i].categoryId = categoryId
          THEN [table[i] EXCEPT !.categoryId = None]
          ELSE table[i]]

\* DELETE /api/categories/:id
DeleteCategory ==
    /\ \E id \in LiveCategories :
          /\ categories' = [categories EXCEPT ![id].exists = FALSE]
          /\ timesheets' = SetNull(timesheets, id)
          /\ equipmentLogs' = SetNull(equipmentLogs, id)
          /\ subcontractorEntries' = SetNull(subcontractorEntries, id)
          /\ overheadEntries' = SetNull(overheadEntries, id)
          /\ materials' = SetNull(materials, id)
    /\ writesSinceStats' = TRUE
    /\ UNCHANGED <<projects, progressReports, today, stats, gmailVars, reportVars,
                   restVars>>

(***************************************************************************)
(* server/routes.ts: POST /api/receipts and POST /api/receipts/:id/analyze; *)
(* server/storage.ts: updateReceiptAnalysis; server/receiptAnalyzer.ts.     *)
(***************************************************************************)
\* receipts ever stored
MaxReceipts == 2

\* a null column, an absent value
Null == [null |-> TRUE]

\* what analyzeReceipt resolves with: JSON.parse(content), the fields the
\* prompt asks for, or whatever other object the model answered with
AnalysisOutputs ==
    {[vendor |-> "acme", total |-> 1],
     [vendor |-> "acme", total |-> 1, status |-> "paid"]}

\* throw new Error(`Failed to analyze receipt: ...`)
AnalysisFailed == "Failed to analyze receipt"

\* throw new Error("No updates provided for receipt analysis")
NoUpdatesProvided == "No updates provided for receipt analysis"

HasOwnProperty(updates, name) == name \in DOMAIN updates

\* updateReceiptAnalysis: the updatePayload built from `updates`
UpdatePayload(updates) ==
    LET data   == HasOwnProperty(updates, "analysisData")
        status == HasOwnProperty(updates, "status")
    IN  [f \in (IF data THEN {"analysisData"} ELSE {})
                  \cup (IF status \/ data THEN {"status"} ELSE {}) |->
            IF f = "analysisData" THEN updates.analysisData
            ELSE IF status THEN updates.status ELSE "analyzed"]

\* if (Object.keys(updatePayload).length === 0) throw
UpdateThrows(updates) == DOMAIN UpdatePayload(updates) = {}

\* db.update(receipts).set(updatePayload).where(eq(receipts.id, id))
ReceiptsUpdated(table, id, updates) ==
    [i \in DOMAIN table |->
        IF i = id THEN SetColumns(table[i], UpdatePayload(updates)) ELSE table[i]]

NoAnalyze ==
    [pc |-> "idle", receiptId |-> None, found |-> FALSE, wasStatus |-> "",
     analysisData |-> Null, error |-> "", response |-> NoResponse]

ReceiptInit ==
    /\ receipts = << >>
    /\ analyze = NoAnalyze

\* POST /api/receipts: the uploaded file is stored with status 'uploaded'
UploadReceipt ==
    /\ Len(receipts) < MaxReceipts
    /\ \E projectId \in 1..MaxProjects :
          receipts' = Append(receipts, [projectId |-> projectId, status |-> "uploaded",
                                        analysisData |-> Null, originalFilename |-> None])
    /\ UNCHANGED analyze

\* const receipt = await storage.getReceiptById(receiptId): 404 without it,
\* the receipt itself when it is analyzed already
AnalyzeGetReceipt ==
    /\ analyze.pc \in {"idle", "done", "rejected"}
    /\ \E receiptId \in 1..(MaxReceipts + 1) :
          analyze' =
              IF receiptId \notin DOMAIN receipts
                THEN [NoAnalyze EXCEPT !.pc = "done", !.receiptId = receiptId,
                                       !.response = NotFound]
              ELSE IF receipts[receiptId].status = "analyzed"
                THEN [NoAnalyze EXCEPT !.pc = "done", !.receiptId = receiptId,
                                       !.found = TRUE, !.wasStatus = "analyzed",
                                       !.response = [status |-> 200,
                                                     receipt |-> receipts[receiptId]]]
              ELSE [NoAnalyze EXCEPT !.pc = "analyzing", !.receiptId = receiptId,
                                     !.found = TRUE,
                                     !.wasStatus = receipts[receiptId].status]
    /\ UNCHANGED receipts

\* const analysisData = await analyzeReceipt(receipt.storagePath)
AnalyzeSucceeds ==
    /\ analyze.pc = "analyzing"
    /\ \E analysisData \in AnalysisOutputs :
          analyze' = [analyze EXCEPT !.pc = "update", !.analysisData = analysisData]
    /\ UNCHANGED receipts

\* analyzeReceipt rejects: the catch block is entered with its error
AnalyzeFails ==
    /\ analyze.pc = "analyzing"
    /\ analyze' = [analyze EXCEPT !.pc = "caught", !.error = AnalysisFailed]
    /\ UNCHANGED receipts

\* const updatedReceipt = await storage.updateReceiptAnalysis(receiptId,
\* analysisData); res.json(updatedReceipt)
AnalyzeUpdate ==
    /\ analyze.pc = "update"
    /\ IF UpdateThrows(analyze.analysisData)
         THEN /\ analyze' = [analyze EXCEPT !.pc = "caught", !.error = NoUpdatesProvided]
              /\ UNCHANGED receipts
         ELSE /\ receipts' = ReceiptsUpdated(receipts, analyze.receiptId,
                                             analyze.analysisData)
              /\ analyze' = [analyze EXCEPT
                                !.pc = "done",
                                !.response = [status |-> 200,
                                              receipt |-> receipts'[analyze.receiptId]]]

\* catch: the receipt is read again and updateReceiptAnalysis(receiptId,
\* { error: error.message }) is called, then 500 is sent; when that call
\* throws, the handler's promise rejects and nothing is sent
AnalyzeCatch ==
    /\ analyze.pc = "caught"
    /\ LET updates == [error |-> analyze.error]
       IN  IF UpdateThrows(updates)
             THEN /\ analyze' = [analyze EXCEPT !.pc = "rejected"]
                  /\ UNCHANGED receipts
             ELSE /\ receipts' = ReceiptsUpdated(receipts, analyze.receiptId, updates)
                  /\ analyze' = [analyze EXCEPT !.pc = "done", !.response = ServerError]

(***************************************************************************)
(* scanGmailAccountForReceipts(connectionId, projectId) and the route that *)
(* starts it, POST /api/gmail-connection/sync.                             *)
(***************************************************************************)
\* number of scans that may be started (each sync request starts one)
NumScans == 2
\* number of receipt attachments in the inbox
NumAttachments == 2

Scans == 1..NumScans
\* the scans a one-scan specification runs
OneScan == {1}

\* EmailMessage.attachments, flattened: two attachments per message, each
\* with the id of its message, its filename and the day it was received
Inbox ==
    [a \in 1..NumAttachments |-> [messageId |-> (a + 1) \div 2, filename |-> a, day |-> 1]]

\* searchReceiptEmails(sinceDate): the query is `after:YYYY/MM/DD`, which
\* keeps the day of sinceDate only and matches the mail of that day too
SearchReceiptEmails(sinceDay) ==
    {a \in 1..NumAttachments : Inbox[a].day >= sinceDay}

\* for (message of messages) for (attachment of message.attachments)
RECURSIVE InOrder(_)
InOrder(S) ==
    IF S = {} THEN << >>
    ELSE LET a == CHOOSE x \in S : \A y \in S : x <= y
         IN  <<a>> \o InOrder(S \ {a})

\* connection.lastSyncAt || new Date(Date.now() - 7 days)
SinceDate(connection) ==
    IF connection.lastSyncAt # None THEN connection.lastSyncAt ELSE today - 7

\* errors.join('; ')
Joined(errors) == [joined |-> errors]

\* the messages pushed on result.errors
DownloadError(filename) == [failed |-> "download", filename |-> filename]
AnalyzeError(filename) == [failed |-> "analyze", filename |-> filename]
ConnectionNotFound == [message |-> "Gmail connection not found"]
GmailFailed == [message |-> "gmail"]
StorageFailed == [message |-> "storage"]

\* const result: ScanResult = { 0, 0, 0, 0, [] } and the locals of the call
NoScan ==
    [pc |-> "idle", connectionId |-> None, projectId |-> None, connection |-> None,
     syncing |-> None, since |-> None, todo |-> << >>, receiptId |-> None,
     analysisData |-> Null, thrown |-> Null,
     emailsScanned |-> 0, receiptsFound |-> 0, receiptsProcessed |-> 0,
     receiptsFailed |-> 0, errors |-> << >>]

ScanInit == scan = [s \in Scans |-> NoScan]

\* the end of one attachment's loop body: the next attachment, or the code
\* after the loops
NextAttachment(sc) ==
    [sc EXCEPT !.todo = Tail(sc.todo),
               !.pc = IF Len(sc.todo) > 1 THEN "download" ELSE "finish"]

\* a loop whose first failure ends it: the remaining attachments are skipped
DownloadAborts(sc) ==
    [sc EXCEPT !.receiptsFailed = sc.receiptsFailed + 1,
               !.errors = Append(sc.errors, DownloadError(Inbox[Head(sc.todo)].filename)),
               !.todo = << >>, !.pc = "finish"]

\* catch (downloadError): receiptsFailed++ and one `Failed to download` entry
DownloadCaught(sc) ==
    NextAttachment([sc EXCEPT !.receiptsFailed = sc.receiptsFailed + 1,
                              !.errors = Append(sc.errors, DownloadError(Inbox[Head(sc.todo)].filename))])

\* the outer catch is entered with the thrown error
ScanCaught(sc, error) == [sc EXCEPT !.pc = "caught", !.thrown = error]

ScanQuiet == UNCHANGED <<gmailVars, receipts>>

\* POST /api/gmail-connection/sync: the active connection is read (404 when
\* there is none), a projectId is required, and the scan is started with
\* connection.id without being awaited
SyncRequest(s) ==
    /\ scan[s].pc = "idle"
    /\ \E id \in GetResults(gmailConnection), projectId \in 1..MaxProjects :
          /\ id # None
          /\ scan' = [scan EXCEPT ![s] = [NoScan EXCEPT !.pc = "start",
                                                         !.connectionId = id,
                                                         !.projectId = projectId]]
    /\ ScanQuiet

\* const connection = await storage.getGmailConnection(); if (!connection)
\* throw new Error('Gmail connection not found')
ScanGetConnection(s) ==
    /\ scan[s].pc = "start"
    /\ \E id \in GetResults(gmailConnection) :
          scan' = [scan EXCEPT ![s] =
                      IF id = None
                        THEN ScanCaught(@, ConnectionNotFound)
                        ELSE [@ EXCEPT !.pc = "syncing",
                                       !.connection = id,
                                       !.since = SinceDate(gmailConnection[id])]]
    /\ ScanQuiet

\* await storage.updateGmailConnection(connection.id, { syncStatus:
\* 'syncing', lastError: null })
ScanSetSyncing(s) ==
    /\ scan[s].pc = "syncing"
    /\ UpdateGmailConnection(scan[s].connection, [syncStatus |-> "syncing", lastError |-> Null])
    /\ scan' = [scan EXCEPT ![s].pc = "search", ![s].syncing = scan[s].connection]
    /\ UNCHANGED receipts

\* const messages = await searchReceiptEmails(sinceDate); emailsScanned and
\* receiptsFound are set from the messages found
ScanSearch(s) ==
    /\ scan[s].pc = "search"
    /\ LET found == SearchReceiptEmails(scan[s].since)
       IN  scan' = [scan EXCEPT ![s].todo = InOrder(found),
                                ![s].emailsScanned = Cardinality({Inbox[a].messageId : a \in found}),
                                ![s].receiptsFound = Cardinality(found),
                                ![s].pc = IF found = {} THEN "finish" ELSE "download"]
    /\ ScanQuiet

\* await downloadAttachment(...); await fs.stat(filePath)
ScanDownload(s) ==
    /\ scan[s].pc = "download"
    /\ scan' = [scan EXCEPT ![s].pc = "create"]
    /\ ScanQuiet

\* const receipt = await storage.createReceipt({ projectId, storagePath,
\* originalFilename: attachment.filename, ..., status: 'uploaded' })
ScanCreateReceipt(s) ==
    /\ scan[s].pc = "create"
    /\ receipts' = Append(receipts, [projectId |-> scan[s].projectId, status |-> "uploaded",
                                     analysisData |-> Null,
                                     originalFilename |-> Inbox[Head(scan[s].todo)].filename])
    /\ scan' = [scan EXCEPT ![s].pc = "analyze", ![s].receiptId = Len(receipts) + 1]
    /\ UNCHANGED gmailVars

\* const analysisData = await analyzeReceipt(filePath)
ScanAnalyzeSucceeds(s) ==
    /\ scan[s].pc = "analyze"
    /\ \E data \in AnalysisOutputs :
          scan' = [scan EXCEPT ![s].pc = "store", ![s].analysisData = data]
    /\ ScanQuiet

\* await storage.updateReceiptAnalysis(receipt.id, { analysisData, status:
\* 'analyzed' }); result.receiptsProcessed++
ScanStore(s) ==
    /\ scan[s].pc = "store"
    /\ receipts' = ReceiptsUpdated(receipts, scan[s].receiptId,
                                   [analysisData |-> scan[s].analysisData, status |-> "analyzed"])
    /\ scan' = [scan EXCEPT ![s] =
                   NextAttachment([@ EXCEPT !.receiptsProcessed = @ + 1])]
    /\ UNCHANGED gmailVars

\* catch (analysisError): updateReceiptAnalysis(receipt.id, { analysisData:
\* { error }, status: 'failed' }); receiptsFailed++; one `Failed to analyze`
\* entry
ScanMarkFailed(s) ==
    /\ scan[s].pc = "markFailed"
    /\ receipts' = ReceiptsUpdated(receipts, scan[s].receiptId,
                                   [analysisData |-> [error |-> scan[s].thrown], status |-> "failed"])
    /\ scan' = [scan EXCEPT ![s] =
                   NextAttachment([@ EXCEPT !.receiptsFailed = @ + 1,
                                            !.errors = Append(@, AnalyzeError(Inbox[Head(scan[s].todo)].filename))])]
    /\ UNCHANGED gmailVars

\* after the loops: updateGmailConnection(connection.id, { syncStatus:
\* receiptsFailed > 0 ? 'error' : 'success', lastSyncAt: new Date(),
\* lastError: errors.length > 0 ? errors.join('; ') : null })
ScanFinish(s) ==
    /\ scan[s].pc = "finish"
    /\ UpdateGmailConnection(scan[s].connection,
          [syncStatus |-> IF scan[s].receiptsFailed > 0 THEN "error" ELSE "success",
           lastSyncAt |-> today,
           lastError  |-> IF Len(scan[s].errors) > 0 THEN Joined(scan[s].errors) ELSE Null])
    /\ scan' = [scan EXCEPT ![s].pc = "resolved"]
    /\ UNCHANGED receipts

\* catch (error): const connection = await storage.getGmailConnection();
\* without one, only result.errors.push(message) and return result
ScanCatchGet(s) ==
    /\ scan[s].pc = "caught"
    /\ \E id \in GetResults(gmailConnection) :
          scan' = [scan EXCEPT ![s] =
                      IF id = None
                        THEN [@ EXCEPT !.pc = "resolved", !.errors = Append(@, scan[s].thrown)]
                        ELSE [@ EXCEPT !.pc = "catchUpdate", !.connection = id]]
    /\ ScanQuiet

\* if (connection) await storage.updateGmailConnection(connection.id, {
\* syncStatus: 'error', lastError: message }); result.errors.push(message);
\* return result
ScanCatchUpdate(s) ==
    /\ scan[s].pc = "catchUpdate"
    /\ UpdateGmailConnection(scan[s].connection,
                             [syncStatus |-> "error", lastError |-> scan[s].thrown])
    /\ scan' = [scan EXCEPT ![s].pc = "resolved", ![s].errors = Append(@, scan[s].thrown)]
    /\ UNCHANGED receipts

\* analyzeReceipt throws, or the update that stores its result rejects:
\* catch (analysisError)
ScanAnalysisFails(s) ==
    /\ scan[s].pc \in {"analyze", "store"}
    /\ scan' = [scan EXCEPT ![s].pc = "markFailed",
                            ![s].thrown = IF scan[s].pc = "analyze" THEN AnalysisFailed
                                          ELSE StorageFailed]
    /\ ScanQuiet

\* downloadAttachment throws ('No attachment data received', a Gmail error),
\* storage.createReceipt rejects, or the update inside catch (analysisError)
\* rejects: catch (downloadError)
ScanAttachmentFails(s) ==
    /\ scan[s].pc \in {"download", "create", "markFailed"}
    /\ scan' = [scan EXCEPT ![s] = DownloadCaught(@)]
    /\ ScanQuiet

\* a storage or Gmail call outside the loops rejects: the outer catch
ScanCallFails(s) ==
    /\ scan[s].pc \in {"start", "syncing", "search", "finish"}
    /\ scan' = [scan EXCEPT ![s] = ScanCaught(@, IF scan[s].pc = "search" THEN GmailFailed
                                                 ELSE StorageFailed)]
    /\ ScanQuiet

\* an awaited storage call inside the catch block rejects: nothing catches
\* it, the async function's promise rejects
ScanCatchFails(s) ==
    /\ scan[s].pc \in {"caught", "catchUpdate"}
    /\ scan' = [scan EXCEPT ![s].pc = "rejected"]
    /\ ScanQuiet

ScanOnly == UNCHANGED <<statsVars, reportVars, categoryVars, historyVars, analyze, cacheVars>>

(***************************************************************************)
(* client/src/pages: the createMutation of the Timesheets, Subcontractors  *)
(* and ProgressReports pages, with its optimistic update of the list query.*)
(***************************************************************************)
\* number of createMutation.mutate calls
NumMutations == 3

Mutations == 1..NumMutations

\* getQueryData of a query that has no data: undefined
NoData == [undefined |-> TRUE]

\* the list GET /api/projects/:id/<list> returns: the rows saved so far
ServerList(n) == [k \in 1..n |-> [id |-> k]]

\* { id: `temp-${Date.now()}`, ... }
OptimisticEntry(m) == [temp |-> m]

\* (old) => [optimistic, ...(old || [])]
Prepended(entry, old) == [list |-> <<entry>> \o (IF old = NoData THEN << >> ELSE old.list)]

\* if (context?.previous...): an array is truthy, undefined is not
Truthy(data) == data # NoData

CacheInit ==
    /\ queryData = NoData
    /\ creating = [m \in Mutations |-> [pc |-> "idle", context |-> NoData]]
    /\ served = 0

\* useQuery: the list is fetched (on mount, after invalidateQueries, on focus)
FetchList ==
    /\ queryData' = [list |-> ServerList(served)]
    /\ UNCHANGED <<creating, served>>

\* onMutate: cancelQueries, previous = getQueryData(key), the optimistic entry
\* is put in front of the list, return { previous }
OnMutate(m) ==
    /\ creating[m].pc = "idle"
    /\ creating' = [creating EXCEPT ![m] = [pc |-> "pending", context |-> queryData]]
    /\ queryData' = Prepended(OptimisticEntry(m), queryData)
    /\ UNCHANGED served

\* onError: if (context?.previous) setQueryData(key, context.previous)
OnError(m) ==
    /\ creating[m].pc = "pending"
    /\ creating' = [creating EXCEPT ![m].pc = "failed"]
    /\ queryData' = IF Truthy(creating[m].context) THEN creating[m].context ELSE queryData
    /\ UNCHANGED served

\* the POST succeeded: the row is saved; onSuccess invalidates the list
\* query, which is then fetched again (FetchList)
OnSuccess(m) ==
    /\ creating[m].pc = "pending"
    /\ creating' = [creating EXCEPT ![m].pc = "done"]
    /\ served' = served + 1
    /\ UNCHANGED queryData

CacheOnly == UNCHANGED <<gmailVars, statsVars, reportVars, categoryVars, historyVars, receiptVars, scanVars>>

HistoryInit ==
    /\ snapshots = {}
    /\ reported = << >>

Init ==
    /\ GmailInit /\ StatsInit /\ ReportInit /\ CategoryInit /\ HistoryInit
    /\ ReceiptInit /\ ScanInit /\ CacheInit

CreateStep ==
    \E p \in Callers :
        \/ CreateBegin(p)
        \/ CreateLock(p)
        \/ CreateDeactivate(p)
        \/ CreateInsert(p)
        \/ CreateCommit(p)
        \/ CreateRollback(p)

DeleteStep == \E id \in RequestIds : DeleteGmailConnection(id)

UpdateStep ==
    \E id \in RequestIds, updateData \in PartialGmailConnection :
        UpdateGmailConnection(id, updateData)

\* createGmailConnection calls alone
NextCreate == CreateStep /\ UNCHANGED <<statsVars, reportVars, categoryVars, restVars>>

SpecCreate == Init /\ [][NextCreate]_vars

\* createGmailConnection calls under fair scheduling: the database runs every
\* statement it is given, and grants a free advisory lock to a waiting
\* transaction (its lock wait queue is first come, first served)
CreateProceeds(p) ==
    /\ CreateDeactivate(p) \/ CreateInsert(p) \/ CreateCommit(p)
    /\ UNCHANGED <<statsVars, reportVars, categoryVars, restVars>>

CreateLocks(p) == CreateLock(p) /\ UNCHANGED <<statsVars, reportVars, categoryVars, restVars>>

SpecCreateFair ==
    /\ Init
    /\ [][NextCreate]_vars
    /\ \A p \in Callers : WF_vars(CreateProceeds(p)) /\ SF_vars(CreateLocks(p))

\* createGmailConnection, deleteGmailConnection and getGmailConnection calls
Next ==
    \/ CreateStep /\ UNCHANGED <<statsVars, reportVars, categoryVars, restVars>>
    \/ DeleteStep /\ UNCHANGED <<statsVars, reportVars, categoryVars, restVars>>
    \/ GetGmailConnection /\ UNCHANGED <<statsVars, reportVars, categoryVars, restVars>>

Spec == Init /\ [][Next]_vars

\* ... and updateGmailConnection calls
NextUpdate ==
    \/ CreateStep /\ UNCHANGED <<statsVars, reportVars, categoryVars, restVars>>
    \/ DeleteStep /\ UNCHANGED <<statsVars, reportVars, categoryVars, restVars>>
    \/ GetGmailConnection /\ UNCHANGED <<statsVars, reportVars, categoryVars, restVars>>
    \/ UpdateStep /\ UNCHANGED <<statsVars, reportVars, categoryVars, restVars>>

SpecUpdate == Init /\ [][NextUpdate]_vars

\* the creation routes and one statistics request at a time, within one day;
\* any read of the request may fail
NextStats ==
    \/ CreateProject /\ UNCHANGED <<reportVars, categoryVars, restVars>>
    \/ CreateTimesheet /\ UNCHANGED <<reportVars, categoryVars, restVars>>
    \/ CreateEquipmentLog /\ UNCHANGED <<reportVars, categoryVars, restVars>>
    \/ CreateSubcontractorEntry /\ UNCHANGED <<reportVars, categoryVars, restVars>>
    \/ CreateOverheadEntry /\ UNCHANGED <<reportVars, categoryVars, restVars>>
    \/ CreateProgressReport /\ UNCHANGED <<reportVars, categoryVars, restVars>>
    \/ CreateMaterial /\ UNCHANGED <<reportVars, categoryVars, restVars>>
    \/ StatsGetProject /\ UNCHANGED <<reportVars, categoryVars, restVars>>
    \/ StatsRead /\ UNCHANGED <<reportVars, categoryVars, restVars>>
    \/ StatsReadReports /\ UNCHANGED <<reportVars, categoryVars, restVars>>
    \/ StatsReadMaterials /\ UNCHANGED <<reportVars, categoryVars, restVars>>
    \/ StatsRespond /\ UNCHANGED <<reportVars, categoryVars, restVars>>
    \/ StatsGetProjectFails /\ UNCHANGED <<reportVars, categoryVars, restVars>>
    \/ StatsReadFails /\ UNCHANGED <<reportVars, categoryVars, restVars>>

SpecStats == Init /\ [][NextStats]_vars

\* statistics requests over several days, with subcontractor entries and the
\* materials of progress reports as the costs
NextDays ==
    \/ CreateProject /\ UNCHANGED <<reportVars, categoryVars, restVars>>
    \/ CreateSubcontractorEntry /\ UNCHANGED <<reportVars, categoryVars, restVars>>
    \/ CreateProgressReport /\ UNCHANGED <<reportVars, categoryVars, restVars>>
    \/ Tick /\ UNCHANGED <<reportVars, categoryVars, restVars>>
    \/ StatsGetProject /\ UNCHANGED <<reportVars, categoryVars, restVars>>
    \/ StatsRead /\ UNCHANGED <<reportVars, categoryVars, restVars>>
    \/ StatsReadReports /\ UNCHANGED <<reportVars, categoryVars, restVars>>
    \/ StatsReadMaterials /\ UNCHANGED <<reportVars, categoryVars, restVars>>
    \/ StatsRespond /\ UNCHANGED <<reportVars, categoryVars, restVars>>

SpecDays == Init /\ [][NextDays]_vars

\* one createProgressReportWithMaterials call at a time, statement by
\* statement, next to a client that reads reports and their materials
NextReport ==
    \/ CreateProject /\ UNCHANGED <<reportVars, categoryVars, restVars>>
    \/ ReportBegin
    \/ ReportInsert
    \/ ReportInsertMaterials
    \/ ReportCommit
    \/ ReportRollback
    \/ ReaderGetReports
    \/ ReaderGetMaterials

SpecReport == Init /\ [][NextReport]_vars

\* the sizes of the tables: rows are only ever appended to them
TableSizes ==
    [timesheets |-> Len(timesheets), equipmentLogs |-> Len(equipmentLogs),
     subcontractorEntries |-> Len(subcontractorEntries),
     overheadEntries |-> Len(overheadEntries),
     progressReports |-> Len(progressReports), materials |-> Len(materials)]

StatsRunning == stats.pc \notin {"idle", "done"}

\* history: a state of the database that exists while the request runs
SnapshotTaken ==
    /\ snapshots' = IF StatsRunning THEN snapshots \cup {TableSizes'} ELSE snapshots
    /\ UNCHANGED <<reportVars, categoryVars, reported, receiptVars, scanVars, cacheVars>>

\* history: the request starts in the present state of the database
SnapshotsStarted ==
    /\ snapshots' = {TableSizes}
    /\ UNCHANGED <<reportVars, categoryVars, reported, receiptVars, scanVars, cacheVars>>

\* a statistics request, read by read, while subcontractor entries and
\* progress reports with materials are created
NextSnapshots ==
    \/ CreateProject /\ SnapshotTaken
    \/ CreateSubcontractorEntry /\ SnapshotTaken
    \/ CreateProgressReport /\ SnapshotTaken
    \/ StatsGetProject /\ SnapshotsStarted
    \/ StatsRead /\ UNCHANGED <<reportVars, categoryVars, restVars>>
    \/ StatsReadReports /\ UNCHANGED <<reportVars, categoryVars, restVars>>
    \/ StatsReadMaterials /\ UNCHANGED <<reportVars, categoryVars, restVars>>
    \/ StatsRespond /\ UNCHANGED <<reportVars, categoryVars, restVars>>

SpecSnapshots == Init /\ [][NextSnapshots]_vars

\* history: the response just sent is the project's latest one
ResponseReported ==
    /\ reported' =
          IF stats'.response.status = 200
            THEN [p \in DOMAIN reported \cup {stats.projectId} |->
                     IF p # stats.projectId THEN reported[p]
                     ELSE IF p \in DOMAIN reported
                            THEN [twice |-> TRUE, before |-> reported[p].last,
                                  last |-> stats'.response.totalSpent]
                            ELSE [twice |-> FALSE, before |-> Zero,
                                  last |-> stats'.response.totalSpent]]
            ELSE reported
    /\ UNCHANGED <<reportVars, categoryVars, snapshots, receiptVars, scanVars, cacheVars>>

\* statistics requests one after another, while subcontractor entries and
\* progress reports with materials are created
NextSuccessive ==
    \/ CreateProject /\ UNCHANGED <<reportVars, categoryVars, restVars>>
    \/ CreateSubcontractorEntry /\ UNCHANGED <<reportVars, categoryVars, restVars>>
    \/ CreateProgressReport /\ UNCHANGED <<reportVars, categoryVars, restVars>>
    \/ StatsGetProject /\ UNCHANGED <<reportVars, categoryVars, restVars>>
    \/ StatsRead /\ UNCHANGED <<reportVars, categoryVars, restVars>>
    \/ StatsReadReports /\ UNCHANGED <<reportVars, categoryVars, restVars>>
    \/ StatsReadMaterials /\ UNCHANGED <<reportVars, categoryVars, restVars>>
    \/ StatsRespond /\ ResponseReported

SpecSuccessive == Init /\ [][NextSuccessive]_vars

ReceiptsOnly ==
    UNCHANGED <<gmailVars, statsVars, reportVars, categoryVars, historyVars, scanVars, cacheVars>>

\* receipts uploaded and analyzed
NextReceipts ==
    \/ UploadReceipt /\ ReceiptsOnly
    \/ AnalyzeGetReceipt /\ ReceiptsOnly
    \/ AnalyzeSucceeds /\ ReceiptsOnly
    \/ AnalyzeFails /\ ReceiptsOnly
    \/ AnalyzeUpdate /\ ReceiptsOnly
    \/ AnalyzeCatch /\ ReceiptsOnly

SpecReceipts == Init /\ [][NextReceipts]_vars

\* one scan, with the connection connected and disconnected meanwhile and
\* with every awaited call able to fail
NextScan ==
    \/ CreateStep /\ UNCHANGED <<statsVars, reportVars, categoryVars, restVars>>
    \/ DeleteStep /\ UNCHANGED <<statsVars, reportVars, categoryVars, restVars>>
    \/ \E s \in OneScan : SyncRequest(s) /\ ScanOnly
    \/ \E s \in OneScan : ScanGetConnection(s) /\ ScanOnly
    \/ \E s \in OneScan : ScanSetSyncing(s) /\ ScanOnly
    \/ \E s \in OneScan : ScanSearch(s) /\ ScanOnly
    \/ \E s \in OneScan : ScanDownload(s) /\ ScanOnly
    \/ \E s \in OneScan : ScanCreateReceipt(s) /\ ScanOnly
    \/ \E s \in OneScan : ScanAnalyzeSucceeds(s) /\ ScanOnly
    \/ \E s \in OneScan : ScanStore(s) /\ ScanOnly
    \/ \E s \in OneScan : ScanMarkFailed(s) /\ ScanOnly
    \/ \E s \in OneScan : ScanFinish(s) /\ ScanOnly
    \/ \E s \in OneScan : ScanCatchGet(s) /\ ScanOnly
    \/ \E s \in OneScan : ScanCatchUpdate(s) /\ ScanOnly
    \/ \E s \in OneScan : ScanAnalysisFails(s) /\ ScanOnly
    \/ \E s \in OneScan : ScanAttachmentFails(s) /\ ScanOnly
    \/ \E s \in OneScan : ScanCallFails(s) /\ ScanOnly
    \/ \E s \in OneScan : ScanCatchFails(s) /\ ScanOnly

SpecScan == Init /\ [][NextScan]_vars

\* sync requests one after another or overlapping, every call succeeding
NextScans ==
    \/ CreateStep /\ UNCHANGED <<statsVars, reportVars, categoryVars, restVars>>
    \/ \E s \in Scans : SyncRequest(s) /\ ScanOnly
    \/ \E s \in Scans : ScanGetConnection(s) /\ ScanOnly
    \/ \E s \in Scans : ScanSetSyncing(s) /\ ScanOnly
    \/ \E s \in Scans : ScanSearch(s) /\ ScanOnly
    \/ \E s \in Scans : ScanDownload(s) /\ ScanOnly
    \/ \E s \in Scans : ScanCreateReceipt(s) /\ ScanOnly
    \/ \E s \in Scans : ScanAnalyzeSucceeds(s) /\ ScanOnly
    \/ \E s \in Scans : ScanStore(s) /\ ScanOnly
    \/ \E s \in Scans : ScanFinish(s) /\ ScanOnly

SpecScans == Init /\ [][NextScans]_vars

\* one page: its list query and its create mutations
NextCache ==
    \/ FetchList /\ CacheOnly
    \/ \E m \in Mutations : OnMutate(m) /\ CacheOnly
    \/ \E m \in Mutations : OnError(m) /\ CacheOnly
    \/ \E m \in Mutations : OnSuccess(m) /\ CacheOnly

SpecCache == Init /\ [][NextCache]_vars

\* categories created and deleted while cost entries are recorded under them
NextCategories ==
    \/ CreateCategory
    \/ DeleteCategory
    \/ CreateProject /\ UNCHANGED <<reportVars, categoryVars, restVars>>
    \/ CreateTimesheet /\ UNCHANGED <<reportVars, categoryVars, restVars>>
    \/ CreateEquipmentLog /\ UNCHANGED <<reportVars, categoryVars, restVars>>
    \/ CreateSubcontractorEntry /\ UNCHANGED <<reportVars, categoryVars, restVars>>
    \/ CreateOverheadEntry /\ UNCHANGED <<reportVars, categoryVars, restVars>>
    \/ CreateProgressReport /\ UNCHANGED <<reportVars, categoryVars, restVars>>
    \/ CreateMaterial /\ UNCHANGED <<reportVars, categoryVars, restVars>>

SpecCategories == Init /\ [][NextCategories]_vars

(***************************************************************************)
(* Claims about the Gmail connection manager.                              *)
(***************************************************************************)
Finished(p) == pc[p] \in {"done", "failed"}

\* C1: under any interleaving of createGmailConnection, deleteGmailConnection
\* and getGmailConnection calls starting from an empty table, at most one
\* gmail_connection row has isActive = true.
C1_AtMostOneActive == Cardinality(ActiveIds(gmailConnection)) <= 1

\* two calls that ran concurrently have both committed, and one row is active
C1_Witness ==
    /\ \A p \in {1, 2} : pc[p] = "done"
    /\ Cardinality(DOMAIN gmailConnection) >= 2
    /\ Cardinality(ActiveIds(gmailConnection)) = 1

\* C2: when all of N >= 2 concurrent createGmailConnection calls against an
\* empty table have finished (and one of them succeeded), exactly one row is
\* active, it is a row one of the calls inserted, and every other row they
\* inserted is inactive.
C2_ExactlyOneActiveAfterCreates ==
    ((\A p \in Callers : Finished(p)) /\ (\E p \in Callers : pc[p] = "done"))
        => /\ Cardinality(ActiveIds(gmailConnection)) = 1
           /\ ActiveIds(gmailConnection)
                 \subseteq {returned[p].id : p \in {q \in Callers : pc[q] = "done"}}

C3_NoIntermediateState ==
    \A p \in Callers :
        pc[p] \in {"deactivated", "inserted"} =>
            \* the rows the transaction deactivated are still active for everyone else
            /\ tx[p].deact \subseteq ActiveIds(gmailConnection)
            \* its new row is not visible yet
            /\ tx[p].insId \notin DOMAIN gmailConnection
            \* and a getGmailConnection() now still returns the old active row
            /\ tx[p].deact # {} => GetResults(gmailConnection) \subseteq tx[p].deact

C3_IndivisibleStep ==
    \A p \in Callers :
        \* a failing call leaves the table as it was, the old row still active
        /\ (pc[p] \in InTx /\ pc'[p] = "failed") =>
              /\ gmailConnection' = gmailConnection
              /\ tx[p].deact \subseteq ActiveIds(gmailConnection')
        \* a statement of the transaction changes nothing others can see
        /\ (pc'[p] # pc[p] /\ pc'[p] \in InTx) => gmailConnection' = gmailConnection
        \* the deactivation and the insertion become visible in the same step
        /\ (pc[p] = "inserted" /\ pc'[p] = "done") =>
              /\ tx[p].insId \in DOMAIN gmailConnection'
              /\ gmailConnection'[tx[p].insId] = tx[p].ins
              /\ \A id \in tx[p].deact : ~gmailConnection'[id].isActive

\* C3: createGmailConnection deactivates the prior active rows and inserts the
\* new row as one indivisible unit: a call that fails at any step leaves the
\* table unchanged with the previously active row still active, and no
\* getGmailConnection observes the old row deactivated while the new row is
\* not yet inserted.
C3_CreateIsAtomic == []C3_NoIntermediateState /\ [][C3_IndivisibleStep]_vars

\* a call failed after its UPDATE and its INSERT, and the row it had
\* deactivated inside the transaction is still the active one
C3_Witness ==
    \E p \in Callers :
        /\ pc[p] = "failed"
        /\ tx[p].deact # {}
        /\ tx[p].insId # None
        /\ ActiveIds(gmailConnection) = tx[p].deact

\* C4: after createGmailConnection returns successfully, whatever accepted
\* input it was given, the returned row is stored with isActive = true and is
\* the one active row (the row getGmailConnection returns); a successful
\* create never leaves zero active connections.
C4_CreatedRowIsTheActiveRow ==
    [][\A p \in Callers :
          (pc[p] = "inserted" /\ pc'[p] = "done") =>
              /\ returned'[p].row.isActive
              /\ ActiveIds(gmailConnection') = {returned'[p].id}]_vars

\* C5: updateGmailConnection(id, partialFields) leaves the set of active rows
\* as it was, for every partialFields it accepts.
C5_UpdateKeepsActiveSet ==
    [][UpdateStep => ActiveIds(gmailConnection') = ActiveIds(gmailConnection)]_vars

(***************************************************************************)
(* The statistics of a project, computed from the tables as they are now.  *)
(***************************************************************************)
StatsNow(projectId) ==
    ComputeStats(projects[projectId],
                 GetProjectRows(timesheets, projectId),
                 GetProjectRows(equipmentLogs, projectId),
                 GetProjectRows(subcontractorEntries, projectId),
                 GetProjectRows(overheadEntries, projectId),
                 GetProjectRows(progressReports, projectId),
                 GetMaterialsOfReports(GetProjectReportIds(projectId)),
                 today, FALSE)

\* the request has been answered 200
Answered == stats.pc = "done" /\ stats.response.status = 200

\* the request has been answered 200 and no row was created while it ran or since
AnsweredFromTheseTables == Answered /\ ~writesSinceStats

\* the sum of amounts[i] over the indices i of ids
RECURSIVE SumAt(_, _)
SumAt(amounts, ids) ==
    IF ids = {} THEN Zero
    ELSE LET i == CHOOSE k \in ids : TRUE
         IN  NumAdd(amounts[i], SumAt(amounts, ids \ {i}))

OwnRows(table, projectId) == {i \in DOMAIN table : table[i].projectId = projectId}

OwnMaterials(projectId) ==
    {i \in DOMAIN materials :
        progressReports[materials[i].progressReportId].projectId = projectId}

Dollars(hundredths) == Num(hundredths, 100)

\* C6: in every 200 response computed from the tables as they are, each of the
\* five category sums ranges over exactly the project's own rows (hours x payRate
\* of its timesheets, fuelCost + rentalCost of its equipment logs, cost of its
\* subcontractor and overhead entries, cost of the materials of its own progress
\* reports), totalSpent is the sum of the five, and remaining is
\* totalBudget - totalSpent.
C6_TotalSpentIsSumOfCategories ==
    AnsweredFromTheseTables =>
        LET r == stats.response
            p == stats.projectId
        IN  /\ r.laborSpent =
                  SumAt([i \in DOMAIN timesheets |->
                            NumMul(Dollars(timesheets[i].hours),
                                   Dollars(timesheets[i].payRate))],
                        OwnRows(timesheets, p))
            /\ r.equipmentSpent =
                  SumAt([i \in DOMAIN equipmentLogs |->
                            NumAdd(Dollars(equipmentLogs[i].fuelCost),
                                   Dollars(equipmentLogs[i].rentalCost))],
                        OwnRows(equipmentLogs, p))
            /\ r.subcontractorsSpent =
                  SumAt([i \in DOMAIN subcontractorEntries |->
                            Dollars(subcontractorEntries[i].cost)],
                        OwnRows(subcontractorEntries, p))
            /\ r.overheadSpent =
                  SumAt([i \in DOMAIN overheadEntries |-> Dollars(overheadEntries[i].cost)],
                        OwnRows(overheadEntries, p))
            /\ r.materialsSpent =
                  SumAt([i \in DOMAIN materials |-> Dollars(materials[i].cost)],
                        OwnMaterials(p))
            /\ r.totalSpent =
                  NumAdd(r.laborSpent,
                         NumAdd(r.equipmentSpent,
                                NumAdd(r.subcontractorsSpent,
                                       NumAdd(r.overheadSpent, r.materialsSpent))))
            /\ r.totalBudget = Dollars(projects[p].totalBudget)
            /\ r.remaining = NumSub(r.totalBudget, r.totalSpent)

\* a response for a project while the other project has cost entries of its own
C6_Witness ==
    /\ AnsweredFromTheseTables
    /\ NumLt(Zero, stats.response.totalSpent)
    /\ \E q \in DOMAIN projects :
          q # stats.projectId /\ NumLt(Zero, StatsNow(q).totalSpent)

\* the answer to the project lookup: 404 exactly when no project has the id
C7_LookupStep ==
    StatsGetProject =>
        IF stats'.projectId \in DOMAIN projects
          THEN stats'.pc = "reading"
          ELSE stats'.pc = "done" /\ stats'.response.status = 404

C7_OverBudget == NumLt(stats'.response.totalBudget, stats'.response.totalSpent)

C7_AmendedStep ==
    /\ C7_LookupStep
    /\ StatsRespond =>
          /\ stats'.response.status = 200
          /\ C7_OverBudget =>
                /\ NumLt(stats'.response.remaining, Zero)
                /\ ~NumLt(stats'.response.variance, Zero)

C7_OriginalStep ==
    /\ C7_LookupStep
    /\ StatsRespond =>
          /\ stats'.response.status = 200
          /\ C7_OverBudget =>
                /\ NumLt(stats'.response.remaining, Zero)
                /\ NumLt(stats'.response.variance, Zero)

C7_WitnessNotFound == stats.pc = "done" /\ stats.response.status = 404

\* C8: in every 200 response projectedFinalCost is totalBudget when
\* percentComplete is 0 and totalSpent / percentComplete x 100 otherwise, and
\* variance is projectedFinalCost - totalBudget.
C8_ProjectedFinalCost ==
    Answered =>
        LET r == stats.response
        IN  /\ r.percentComplete = 0 => r.projectedFinalCost = r.totalBudget
            /\ r.percentComplete # 0 =>
                  r.projectedFinalCost =
                      NumMul(NumDiv(r.totalSpent, IntNum(r.percentComplete)), Hundred)
            /\ r.variance = NumSub(r.projectedFinalCost, r.totalBudget)

\* budget 50000, 50% complete, spent 30000: projected 60000, variance 10000
C8_Witness ==
    /\ Answered
    /\ stats.response.totalBudget = IntNum(50000)
    /\ stats.response.percentComplete = 50
    /\ stats.response.totalSpent = IntNum(30000)
    /\ stats.response.projectedFinalCost = IntNum(60000)
    /\ stats.response.variance = IntNum(10000)

\* no progress reported, money spent: projected is the budget
C8_WitnessNoProgress ==
    /\ Answered
    /\ stats.response.percentComplete = 0
    /\ NumLt(Zero, stats.response.totalSpent)
    /\ stats.response.projectedFinalCost = stats.response.totalBudget

\* report i is the project's latest: no other report of the project has a
\* greater date, or the same date and a later createdAt
LatestReport(projectId, i) ==
    /\ i \in OwnRows(progressReports, projectId)
    /\ \A j \in OwnRows(progressReports, projectId) \ {i} :
          \/ progressReports[j].date < progressReports[i].date
          \/ progressReports[j].date = progressReports[i].date /\ j < i

\* C9: in every 200 response computed from the tables as they are,
\* percentComplete is that of the project's report with the greatest date, ties
\* broken by the latest createdAt, and 0 when the project has no report,
\* whatever the order in which the reports were created.
C9_LatestReportWins ==
    AnsweredFromTheseTables =>
        LET p == stats.projectId
        IN  IF OwnRows(progressReports, p) = {}
              THEN stats.response.percentComplete = 0
              ELSE \E i \in OwnRows(progressReports, p) :
                      /\ LatestReport(p, i)
                      /\ stats.response.percentComplete = progressReports[i].percentComplete

\* the report created later has the earlier date and does not override
C9_Witness ==
    /\ AnsweredFromTheseTables
    /\ \E i, j \in OwnRows(progressReports, stats.projectId) :
          /\ i < j
          /\ progressReports[j].date < progressReports[i].date
          /\ progressReports[i].percentComplete # progressReports[j].percentComplete
          /\ stats.response.percentComplete = progressReports[i].percentComplete

\* two reports of the same date: the one created later wins
C9_WitnessTie ==
    /\ AnsweredFromTheseTables
    /\ \E i, j \in OwnRows(progressReports, stats.projectId) :
          /\ i < j
          /\ progressReports[j].date = progressReports[i].date
          /\ progressReports[i].percentComplete # progressReports[j].percentComplete
          /\ stats.response.percentComplete = progressReports[j].percentComplete

\* the table before its most recently created row was stored
Earlier(table) == SubSeq(table, 1, Len(table) - 1)

\* the percentUsed the endpoint computes for a project from the given cost tables
PercentUsedOf(projectId, timesheetTable, equipmentTable, subcontractorTable, overheadTable, materialTable) ==
    ComputeStats(projects[projectId],
                 GetProjectRows(timesheetTable, projectId),
                 GetProjectRows(equipmentTable, projectId),
                 GetProjectRows(subcontractorTable, projectId),
                 GetProjectRows(overheadTable, projectId),
                 GetProjectRows(progressReports, projectId),
                 MaterialsIn(materialTable, GetProjectReportIds(projectId)),
                 today, FALSE).percentUsed

\* C10: whichever cost entry (timesheet, equipment log, subcontractor entry,
\* overhead entry or material, all validated non-negative) was stored last, the
\* percentUsed of every project is not smaller than it was before that entry.
C10_PercentUsedNeverDecreases ==
    \A p \in DOMAIN projects :
        LET now == PercentUsedOf(p, timesheets, equipmentLogs, subcontractorEntries,
                                 overheadEntries, materials)
        IN  /\ timesheets # << >> =>
                  ~NumLt(now, PercentUsedOf(p, Earlier(timesheets), equipmentLogs,
                                            subcontractorEntries, overheadEntries,
                                            materials))
            /\ equipmentLogs # << >> =>
                  ~NumLt(now, PercentUsedOf(p, timesheets, Earlier(equipmentLogs),
                                            subcontractorEntries, overheadEntries,
                                            materials))
            /\ subcontractorEntries # << >> =>
                  ~NumLt(now, PercentUsedOf(p, timesheets, equipmentLogs,
                                            Earlier(subcontractorEntries),
                                            overheadEntries, materials))
            /\ overheadEntries # << >> =>
                  ~NumLt(now, PercentUsedOf(p, timesheets, equipmentLogs,
                                            subcontractorEntries,
                                            Earlier(overheadEntries), materials))
            /\ materials # << >> =>
                  ~NumLt(now, PercentUsedOf(p, timesheets, equipmentLogs,
                                            subcontractorEntries, overheadEntries,
                                            Earlier(materials)))

\* a response, then an entry added, and the project's percentUsed is now greater
C10_Witness ==
    /\ Answered
    /\ writesSinceStats
    /\ NumLt(Zero, stats.response.percentUsed)
    /\ NumLt(stats.response.percentUsed, StatsNow(stats.projectId).percentUsed)
    /\ IsFinite(StatsNow(stats.projectId).percentUsed)

(***************************************************************************)
(* Claims about the figures that depend on the day.                        *)
(***************************************************************************)
\* the whole days from the project's start to the moment of the computation,
\* rounded up, when the computation runs on day `today`
C11_DaysSinceStart(project) ==
    {today - project.startDate, today - project.startDate + 1}

C11_Step ==
    StatsRespond =>
        LET r == stats'.response
        IN  /\ \E days \in C11_DaysSinceStart(stats.project) :
                  r.dailyBurnRate =
                      NumDiv(r.totalSpent, IntNum(IF days < 1 THEN 1 ELSE days))
            /\ IsFinite(r.dailyBurnRate)
            /\ ~NumLt(r.totalSpent, r.dailyBurnRate)

\* C11: every 200 response carries dailyBurnRate = totalSpent / max(1,
\* daysSinceStart), also for a project that starts today or later; it is a
\* finite number and never exceeds totalSpent.
C11_BurnRateDividesByADayAtLeast == [][C11_Step]_vars

\* money spent on a project that has not started yet: the divisor is 1
C11_Witness ==
    /\ Answered
    /\ stats.project.startDate > today
    /\ NumLt(Zero, stats.response.totalSpent)
    /\ stats.response.dailyBurnRate = stats.response.totalSpent

\* money spent on a project that started the day before: the divisor is 2
C11_WitnessTwoDays ==
    /\ Answered
    /\ NumLt(Zero, stats.response.dailyBurnRate)
    /\ NumLt(stats.response.dailyBurnRate, stats.response.totalSpent)

\* the project's rows of a table that are dated today
OwnRowsOfToday(table, projectId) ==
    {i \in OwnRows(table, projectId) : table[i].date = today}

\* the materials of the project's progress reports that are dated today
OwnMaterialsOfToday(projectId) ==
    {i \in OwnMaterials(projectId) :
        progressReports[materials[i].progressReportId].date = today}

\* C12: in every 200 response computed from the tables as they are, spentToday
\* is the sum of the contributions of the project's timesheets, equipment logs,
\* subcontractor entries, overhead entries and materials that are dated today,
\* and of no other entry.
C12_SpentTodayCoversEveryType ==
    AnsweredFromTheseTables =>
        LET p == stats.projectId
        IN  stats.response.spentToday =
                NumAdd(SumAt([i \in DOMAIN timesheets |->
                                 NumMul(Dollars(timesheets[i].hours),
                                        Dollars(timesheets[i].payRate))],
                             OwnRowsOfToday(timesheets, p)),
                NumAdd(SumAt([i \in DOMAIN equipmentLogs |->
                                 NumAdd(Dollars(equipmentLogs[i].fuelCost),
                                        Dollars(equipmentLogs[i].rentalCost))],
                             OwnRowsOfToday(equipmentLogs, p)),
                NumAdd(SumAt([i \in DOMAIN subcontractorEntries |->
                                 Dollars(subcontractorEntries[i].cost)],
                             OwnRowsOfToday(subcontractorEntries, p)),
                NumAdd(SumAt([i \in DOMAIN overheadEntries |->
                                 Dollars(overheadEntries[i].cost)],
                             OwnRowsOfToday(overheadEntries, p)),
                       SumAt([i \in DOMAIN materials |-> Dollars(materials[i].cost)],
                             OwnMaterialsOfToday(p))))))

\* C13: no 200 response carries a percentUsed that is Infinity or NaN (null in
\* the JSON body), a stored totalBudget of 0 included.
C13_PercentUsedIsANumber ==
    Answered => IsFinite(stats.response.percentUsed)

\* C17: every stored project has a stored totalBudget greater than 0 and a
\* stored category budget of 0 or more.
C17_StoredBudgetIsPositive ==
    \A p \in DOMAIN projects :
        projects[p].totalBudget > 0 /\ projects[p].laborBudget >= 0

\* the response carries figures
C14_HasFigures(response) == DOMAIN response # {"status"}

C14_Step ==
    /\ (StatsGetProjectFails \/ StatsReadFails) =>
          /\ stats'.pc = "done"
          /\ stats'.response.status = 500
          /\ ~C14_HasFigures(stats'.response)
    /\ (stats.pc # "done" /\ stats'.pc = "done" /\ C14_HasFigures(stats'.response)) =>
          /\ stats.pc = "respond"
          /\ stats.pending = {}

\* C14: a request one of whose reads fails (project, timesheets, equipment
\* logs, subcontractor entries, overhead entries, progress reports, materials)
\* ends with a 500 response without any statistics field, and a response with
\* figures is only produced once every read has been made.
C14_FailedReadGivesNoFigures == [][C14_Step]_vars

\* a request for an existing project, with cost entries stored, that failed on
\* one of its reads
C14_Witness ==
    /\ stats.pc = "done"
    /\ stats.response.status = 500
    /\ stats.projectId \in DOMAIN projects
    /\ ~C14_HasFigures(stats.response)
    /\ RowCount > 0


(***************************************************************************)
(* C15: createProgressReportWithMaterials is all-or-nothing: afterwards    *)
(* either the report and every supplied material exist or none of them     *)
(* does, and no reader ever sees a report without the materials it was     *)
(* created with.                                                           *)
(***************************************************************************)
C15_MaterialsOf(reportId) == MaterialsIn(materials, {reportId})

\* every report in the table has exactly the materials it came with, and
\* every material belongs to a report in the table
C15_ReportWithAllItsMaterials ==
    /\ \A id \in DOMAIN progressReports : C15_MaterialsOf(id) = supplied[id]
    /\ \A i \in DOMAIN materials :
          materials[i].progressReportId \in DOMAIN progressReports

\* a failed call left neither a report nor a material
C15_FailedCallLeftNothing ==
    reportTx.pc = "failed" =>
        /\ Len(progressReports) = reportTx.reportsBefore
        /\ Len(materials) = reportTx.materialsBefore

\* a reader that saw a report read all of its materials
C15_ReaderSawAllMaterials ==
    reader.pc = "done" => reader.materials = supplied[reader.report]

\* C15: a report and its materials are created together or not at all, and
\* are visible to a concurrent reader only together
C15_AllOrNothing ==
    /\ C15_ReportWithAllItsMaterials
    /\ C15_FailedCallLeftNothing
    /\ C15_ReaderSawAllMaterials

\* a reader read the two materials of a committed report
C15_Witness ==
    /\ reportTx.pc = "done"
    /\ reader.pc = "done"
    /\ reader.report = reportTx.id
    /\ Len(reader.materials) = 2

\* a call with materials failed after its inserts
C15_WitnessFailed ==
    /\ reportTx.pc = "failed"
    /\ reportTx.id # None
    /\ Len(reportTx.costs) = 2


(***************************************************************************)
(* C16: deleting a category deletes no cost entry: every entry that named  *)
(* it stays, with categoryId null and nothing else changed, totalSpent of  *)
(* every project is unchanged, and the statistics count those entries      *)
(* under "uncategorized".                                                  *)
(***************************************************************************)
C16_Deleted == {c \in LiveCategories : ~categories'[c].exists}

\* the table after the step is the table before it with the deleted
\* category's references null
C16_Kept(before, after) ==
    /\ Len(after) = Len(before)
    /\ \A i \in DOMAIN before :
          after[i] = IF before[i].categoryId \in C16_Deleted
                       THEN [before[i] EXCEPT !.categoryId = None]
                       ELSE before[i]

C16_NoCategory(table, ids) == {i \in ids : table[i].categoryId = None}

\* what the project's entries without a category have cost
C16_UncategorizedSpent(p) ==
    NumAdd(SumAt([i \in DOMAIN timesheets |->
                     NumMul(Dollars(timesheets[i].hours), Dollars(timesheets[i].payRate))],
                 C16_NoCategory(timesheets, OwnRows(timesheets, p))),
    NumAdd(SumAt([i \in DOMAIN equipmentLogs |->
                     NumAdd(Dollars(equipmentLogs[i].fuelCost),
                            Dollars(equipmentLogs[i].rentalCost))],
                 C16_NoCategory(equipmentLogs, OwnRows(equipmentLogs, p))),
    NumAdd(SumAt([i \in DOMAIN subcontractorEntries |->
                     Dollars(subcontractorEntries[i].cost)],
                 C16_NoCategory(subcontractorEntries, OwnRows(subcontractorEntries, p))),
    NumAdd(SumAt([i \in DOMAIN overheadEntries |-> Dollars(overheadEntries[i].cost)],
                 C16_NoCategory(overheadEntries, OwnRows(overheadEntries, p))),
           SumAt([i \in DOMAIN materials |-> Dollars(materials[i].cost)],
                 C16_NoCategory(materials, OwnMaterials(p)))))))

C16_EntriesKept ==
    /\ C16_Kept(timesheets, timesheets')
    /\ C16_Kept(equipmentLogs, equipmentLogs')
    /\ C16_Kept(subcontractorEntries, subcontractorEntries')
    /\ C16_Kept(overheadEntries, overheadEntries')
    /\ C16_Kept(materials, materials')

\* the statistics of every project have an "uncategorized" figure, the cost
\* of the project's entries without a category
C16_CountedUncategorized ==
    \A p \in DOMAIN projects :
        /\ "uncategorizedTotal" \in DOMAIN StatsNow(p)
        /\ StatsNow(p).uncategorizedTotal = C16_UncategorizedSpent(p)

\* C16: a step that deletes a category keeps every cost entry, sets the
\* categoryId of those that named it to null and changes nothing else of
\* them (so that every sum of their costs, totalSpent included, is as it
\* was), and once a category has been deleted the statistics of every
\* project count the entries without a category in an "uncategorized" figure.
C16_DeleteKeepsEntries ==
    /\ [][C16_Deleted # {} => C16_EntriesKept]_vars
    /\ [](LiveCategories # DOMAIN categories => C16_CountedUncategorized)

\* the part of C16 about the rows alone
C16_DeleteKeepsRows == [][C16_Deleted # {} => C16_EntriesKept]_vars

\* entries of two kinds name a category, which can then be deleted
C16_WitnessNamed ==
    /\ \E i \in DOMAIN subcontractorEntries :
          subcontractorEntries[i].categoryId \in LiveCategories
    /\ \E i \in DOMAIN timesheets : timesheets[i].categoryId \in LiveCategories


(***************************************************************************)
(* C18: updateGmailConnection and deleteGmailConnection with an id that    *)
(* matches no row end in NotFound and leave the table as it was; DELETE    *)
(* /api/gmail-connection/:id for a missing id reports no success.          *)
(***************************************************************************)
C18_CallWith(id) ==
    \/ DeleteGmailConnection(id)
    \/ \E updateData \in PartialGmailConnection : UpdateGmailConnection(id, updateData)

C18_Step ==
    \A id \in RequestIds :
        C18_CallWith(id) /\ id \notin DOMAIN gmailConnection =>
            /\ gmailConnection' = gmailConnection
            /\ lastCall'.outcome = NotFoundOutcome

\* C18: an update or delete call whose id matches no row leaves the table
\* unchanged and ends in the NotFound outcome, never in success.
C18_MissingIdIsNotFound == [][C18_Step]_vars

\* the part of C18 about the table alone
C18_MissingIdLeavesTable ==
    [][\A id \in RequestIds :
          C18_CallWith(id) /\ id \notin DOMAIN gmailConnection =>
              gmailConnection' = gmailConnection]_vars

\* a delete call for an id that matches no row has ended, next to a stored row
C18_WitnessMissing ==
    /\ lastCall.op = "delete"
    /\ lastCall.id \notin DOMAIN gmailConnection
    /\ gmailConnection # << >>


(***************************************************************************)
(* C19: a createGmailConnection call that finds the lock held by another   *)
(* creator and ends without it ends in ConcurrencyConflict, which POST     *)
(* /gmail-connection answers with 409; no call deactivates or inserts      *)
(* without holding the lock.                                               *)
(***************************************************************************)
C19_Blocked(p) == pc[p] = "begun" /\ advisoryLock \notin {None, p}

C19_WritesUnderLock ==
    \A p \in Callers : pc'[p] \in {"deactivated", "inserted"} => advisoryLock' = p

C19_Step ==
    /\ C19_WritesUnderLock
    /\ \A p \in Callers :
          C19_Blocked(p) /\ pc'[p] # "begun" =>
              /\ pc'[p] = "failed"
              /\ PostStatus(pc'[p]) = 409

\* C19: a call that waits for the lock another creator holds either keeps
\* waiting or fails, and its failure is answered 409 (a conflict), not as a
\* validation error; deactivate and insert run only under the lock.
C19_ContentionEndsInConflict == [][C19_Step]_vars

\* the part of C19 about writing under the lock alone
C19_NeverWritesWithoutLock == [][C19_WritesUnderLock]_vars

(***************************************************************************)
(* C20: the creation lock is held only during one createGmailConnection    *)
(* transaction and is released on commit and on rollback: with no creator  *)
(* inside its transaction the lock is free, and under fair scheduling      *)
(* every pending call acquires the lock and finishes.                      *)
(***************************************************************************)
C20_HoldsLock(p) == pc[p] \in {"locked", "deactivated", "inserted"}

C20_LockFreeOutsideTransactions ==
    /\ advisoryLock # None => C20_HoldsLock(advisoryLock)
    /\ (\A p \in Callers : ~C20_HoldsLock(p)) => advisoryLock = None

\* C20: the lock is held by a creator inside its transaction or by nobody,
\* and every call that has begun finishes (commits or fails).
C20_LockReleasedAndEveryCallFinishes ==
    /\ []C20_LockFreeOutsideTransactions
    /\ \A p \in Callers : (pc[p] = "begun") ~> Finished(p)

\* a creator took the lock after another one's transaction had failed, and
\* committed; the lock is free again
C20_Witness ==
    /\ \E p, q \in Callers : pc[p] = "failed" /\ tx[p].insId # None /\ pc[q] = "done"
                              /\ tx[q].insId > tx[p].insId
    /\ advisoryLock = None


(***************************************************************************)
(* C26: with cost entries and progress reports being created while a       *)
(* statistics request runs, every 200 response is the aggregate of one     *)
(* state of the database that existed between the start of the request and *)
(* its response.                                                           *)
(***************************************************************************)
C26_First(table, size) == SubSeq(table, 1, size)

\* the response computed from the database as it was with the given table sizes
C26_StatsAt(sizes, projectId, pastMidnight) ==
    LET reports == C26_First(progressReports, sizes.progressReports)
    IN  ComputeStats(projects[projectId],
                     GetProjectRows(C26_First(timesheets, sizes.timesheets), projectId),
                     GetProjectRows(C26_First(equipmentLogs, sizes.equipmentLogs), projectId),
                     GetProjectRows(C26_First(subcontractorEntries,
                                              sizes.subcontractorEntries), projectId),
                     GetProjectRows(C26_First(overheadEntries, sizes.overheadEntries),
                                    projectId),
                     GetProjectRows(reports, projectId),
                     MaterialsIn(C26_First(materials, sizes.materials),
                                 ProjectRows(reports, projectId)),
                     today, pastMidnight)

\* C26: every 200 response equals the statistics of one database state that
\* existed while the request ran, so that materialsSpent and percentComplete
\* come from the same set of progress reports.
C26_ResponseIsOneSnapshot ==
    Answered =>
        \E sizes \in snapshots, pastMidnight \in BOOLEAN :
            stats.response = C26_StatsAt(sizes, stats.projectId, pastMidnight)


\* the same for a request during which nothing was written
C26_QuietRequestIsOneSnapshot ==
    AnsweredFromTheseTables =>
        \E sizes \in snapshots, pastMidnight \in BOOLEAN :
            stats.response = C26_StatsAt(sizes, stats.projectId, pastMidnight)


AnalyzeEnded == analyze.pc \in {"done", "rejected"}

\* C28: when the request for an 'uploaded' receipt has ended and its analysis
\* had succeeded, the response is 200 with the stored receipt, whose status
\* is 'analyzed' and whose analysisData is the extracted data.
C28_AnalysisIsStored ==
    (AnalyzeEnded /\ analyze.wasStatus = "uploaded" /\ analyze.analysisData # Null) =>
        /\ analyze.response.status = 200
        /\ analyze.response.receipt = receipts[analyze.receiptId]
        /\ receipts[analyze.receiptId].status = "analyzed"
        /\ receipts[analyze.receiptId].analysisData = analyze.analysisData

\* the receipts the email scans created for attachment `filename`
ScanReceiptsOf(filename) ==
    {i \in DOMAIN receipts : receipts[i].originalFilename = filename}

\* the scan's side of C21: an attachment with a `Failed to analyze` entry has
\* a receipt in status 'failed' whose analysisData carries the error
C21_ScanPersistsError ==
    \A s \in Scans : \A k \in DOMAIN scan[s].errors :
        scan[s].errors[k] \in {AnalyzeError(Inbox[a].filename) : a \in 1..NumAttachments} =>
            \E i \in ScanReceiptsOf(scan[s].errors[k].filename) :
                /\ receipts[i].status = "failed"
                /\ "error" \in DOMAIN receipts[i].analysisData

\* C21: when the analyze request has ended and analyzeReceipt had failed, the
\* receipt is no longer 'uploaded' and its analysisData carries the error
\* string; and every analysis failure of an email scan is stored likewise.
C21_ErrorIsPersisted ==
    /\ (AnalyzeEnded /\ analyze.error = AnalysisFailed) =>
          /\ receipts[analyze.receiptId].status # "uploaded"
          /\ receipts[analyze.receiptId].analysisData = [error |-> AnalysisFailed]
    /\ C21_ScanPersistsError

\* the scan is inside its loops, or just after them
C22_InLoop(s) ==
    scan[s].pc \in {"download", "create", "analyze", "store", "markFailed", "finish"}

\* every attachment found is processed, failed or still to come, and every
\* failed one has its entry in errors
C22_Counted(s) ==
    /\ scan[s].receiptsProcessed + scan[s].receiptsFailed + Len(scan[s].todo)
          = scan[s].receiptsFound
    /\ Len(scan[s].errors) = scan[s].receiptsFailed

\* the update after the loops stores the joined errors (null when there are
\* none) on the scan's connection
C22_FinalUpdate(s) ==
    (scan[s].pc = "finish" /\ scan'[s].pc = "resolved") =>
        gmailConnection'[scan[s].connection].lastError =
            IF Len(scan[s].errors) > 0 THEN Joined(scan[s].errors) ELSE Null

\* C22: a failed attachment does not end the scan: inside the loops every
\* found attachment is counted once (with none left at the loop's end,
\* receiptsProcessed + receiptsFailed = receiptsFound), errors has one entry
\* per failed attachment, and the update after the loops stores the joined
\* errors as the connection's lastError.
C22_FailuresAreCounted ==
    /\ [][\A s \in Scans : C22_FinalUpdate(s)]_vars
    /\ [](\A s \in Scans : C22_InLoop(s) =>
              /\ C22_Counted(s)
              /\ scan[s].pc = "finish" => scan[s].todo = << >>)

\* a scan ended with one attachment analyzed and the other failed, and the
\* connection carries the joined errors
C22_Witness ==
    \E s \in Scans :
        /\ scan[s].pc = "resolved"
        /\ scan[s].receiptsProcessed = 1
        /\ scan[s].receiptsFailed = 1
        /\ scan[s].receiptsFound = 2
        /\ gmailConnection[scan[s].connection].lastError = Joined(scan[s].errors)

\* the scan's promise has settled
ScanSettled(s) == scan[s].pc \in {"resolved", "rejected"}

\* C23: a scan never raises: once its promise has settled it is resolved, and
\* when an error had reached the outer catch, result.errors records it.
C23_ScanNeverRejects ==
    \A s \in Scans :
        ScanSettled(s) =>
            /\ scan[s].pc = "resolved"
            /\ scan[s].thrown \in {ConnectionNotFound, GmailFailed, StorageFailed} =>
                  \E k \in DOMAIN scan[s].errors : scan[s].errors[k] = scan[s].thrown

\* C24: a scan that set a connection's syncStatus to 'syncing' and has
\* returned its result leaves that connection with syncStatus 'success' or
\* 'error', also when the connection was disconnected or replaced meanwhile.
C24_NeverLeftSyncing ==
    \A s \in Scans :
        (scan[s].pc = "resolved" /\ scan[s].syncing # None) =>
            gmailConnection[scan[s].syncing].syncStatus \in {"success", "error"}

\* the columns a scan writes
C29_SyncColumns(row) ==
    [syncStatus |-> row.syncStatus, lastError |-> row.lastError, lastSyncAt |-> row.lastSyncAt]

\* the ids the started scans were given by the route
C29_PassedIds == {scan[s].connectionId : s \in Scans} \ {None}

\* C29: a scan writes syncStatus, lastError and lastSyncAt only to the
\* connection whose id the sync route passed to it.
C29_WritesOnlyPassedConnection ==
    [][\A id \in DOMAIN gmailConnection :
          C29_SyncColumns(gmailConnection'[id]) # C29_SyncColumns(gmailConnection[id])
              => id \in C29_PassedIds]_vars

\* C30: across sync requests, one after another or overlapping, each email
\* attachment has at most one Receipt row.
C30_OneReceiptPerAttachment ==
    \A a \in 1..NumAttachments : Cardinality(ScanReceiptsOf(Inbox[a].filename)) <= 1

\* the optimistic entries in the cached list
C25_TempEntries ==
    IF queryData = NoData THEN {}
    ELSE {queryData.list[k] : k \in DOMAIN queryData.list} \cap {OptimisticEntry(m) : m \in Mutations}

\* the step in which mutation m fails
C25_Fails(m) == creating[m].pc = "pending" /\ creating'[m].pc = "failed"

\* C25: when a creation fails, the cached list is exactly what the cache held
\* before that creation's optimistic insert (no list, when it held none), and
\* no optimistic entry of a failed creation is left in the cache, also with
\* several creations in flight.
C25_FailureRollsBack ==
    /\ [][\A m \in Mutations : C25_Fails(m) => queryData' = creating[m].context]_vars
    /\ [](\A m \in Mutations : creating[m].pc = "failed" => OptimisticEntry(m) \notin C25_TempEntries)

\* the part of C25 with a list in the cache before the insert: the failing
\* step restores that list
C25_RollsBackToList ==
    [][\A m \in Mutations :
          (C25_Fails(m) /\ creating[m].context # NoData) => queryData' = creating[m].context]_vars

\* the part of C25 with several creations in flight, each started with a list
\* in the cache
C25_NoFailedEntryLeft ==
    (\A m \in Mutations : creating[m].pc # "idle" => creating[m].context # NoData) =>
        \A m \in Mutations : creating[m].pc = "failed" => OptimisticEntry(m) \notin C25_TempEntries

=============================================================================
